---------------------------- MODULE Spec2Model ----------------------------
(***************************************************************************)
(* AI Feedback Analyzer: the resilient Gemini call executor                *)
(* (utils/gemini_api.py), the analysis operations built on it, and the     *)
(* Streamlit session that drives them (app.py, utils/clean.py).            *)
(*                                                                         *)
(* A Python string is a sequence of tokens.  A token is either a single    *)
(* character (feedback text is kept character by character: a character of *)
(* printable ASCII or Latin-1 as itself, any other as "U+" and the four to *)
(* six hexadecimal digits of its code point) or a literal fragment of a    *)
(* string.  In the strings the executor returns a fragment                 *)
(* holds no comma and neither starts nor ends with white space, so that    *)
(* splitting at commas, trimming and prefix tests work on tokens as they   *)
(* do on characters.  The fixed text of a prompt template is one token:    *)
(* the program never looks into a prompt.                                  *)
(***************************************************************************)
EXTENDS Integers, Sequences, FiniteSets, TLC

VARIABLES
    call,                    \* frame of make_gemini_call_with_retry
    uploaded_file,           \* value of the st.file_uploader widget
    lemmatize_option,        \* value of the st.checkbox widget of line 126
    cleaned_feedback,        \* st.session_state.cleaned_feedback
    file_type,               \* st.session_state.file_type
    sentiments,              \* st.session_state.sentiments
    topics_per_feedback,     \* st.session_state.topics_per_feedback
    ai_summary,              \* st.session_state.ai_summary
    chat_history,            \* st.session_state.chat_history
    last_uploaded_file_name, \* st.session_state.last_uploaded_file_name
    analysis_completed,      \* st.session_state.analysis_completed
    pc,                      \* where the running script is
    i,                       \* loop index of the analysis loop
    temp_sentiments,         \* local list of the analysis handler
    temp_topics_for_df,      \* local list of the analysis handler
    progress,                \* last value given to ai_progress_bar.progress
    calls,                   \* history: the executor calls of the session
    ingests,                 \* history: the outcomes of the runs of the upload
                             \* branch since the uploader's file last changed
    runs,                    \* history: for every click on Run AI Analysis
                             \* since the file was taken up, the number of
                             \* executor calls made before it
    startup                  \* the import of utils/gemini_api.py: the call of
                             \* get_supported_model and model_to_use

session_vars == <<uploaded_file, lemmatize_option, cleaned_feedback, file_type,
                  sentiments, topics_per_feedback, ai_summary, chat_history,
                  last_uploaded_file_name, analysis_completed>>
handler_vars == <<pc, i, temp_sentiments, temp_topics_for_df, progress, calls,
                  ingests, runs>>
vars == <<call, session_vars, handler_vars, startup>>

-----------------------------------------------------------------------------
(* Bounds of the model *)

\* chat interactions of one session
MaxChat == 1
\* chat interactions of a session that only chats
MaxChatOnly == 3
\* lines, list elements or rows of a generated file
MaxRecords == 3
\* characters of a generated text without markup
MaxLen == 6
\* characters of the generated text between two tags
MaxInner == 4
\* runs of the upload branch on one file that are followed
MaxIngests == 2
\* clicks on Run AI Analysis for one file that find the analysis not
\* completed and are followed
MaxRuns == 1
\* comma-separated pieces of a generated topics response
MaxPieces == 3

-----------------------------------------------------------------------------
(* Program constants *)

\* default of parameter max_retries
DefaultMaxRetries == 7
\* default of parameter initial_delay (1.0 seconds)
InitialDelay == 1
\* feedback_list[:100] of generate_overall_summary
SummarySampleSize == 100
\* chat_context_limit of the chat handler
chat_context_limit == 50

None == <<"None">>

-----------------------------------------------------------------------------
(* Strings *)

Min(a, b) == IF a < b THEN a ELSE b

\* s[:n]
Take(s, n) == SubSeq(s, 1, Min(n, Len(s)))

\* s.startswith(p)
StartsWith(s, p) == Len(p) <= Len(s) /\ SubSeq(s, 1, Len(p)) = p

Digit(d) ==
    CASE d = 0 -> "0" [] d = 1 -> "1" [] d = 2 -> "2" [] d = 3 -> "3"
      [] d = 4 -> "4" [] d = 5 -> "5" [] d = 6 -> "6" [] d = 7 -> "7"
      [] d = 8 -> "8" [] d = 9 -> "9"

\* str(n) of an integer, as an f-string formats it
RECURSIVE IntToStr(_)
IntToStr(n) ==
    IF n < 0 THEN <<"-">> \o IntToStr(0 - n)
    ELSE IF n < 10 THEN <<Digit(n)>>
    ELSE IntToStr(n \div 10) \o <<Digit(n % 10)>>

-----------------------------------------------------------------------------
(* The strings make_gemini_call_with_retry returns *)

BlockedSentinel ==
    <<"AI response was empty or blocked for this input", ",", " ",
      "possibly due to safety settings.">>

ExhaustedSentinel(max, e) ==
    <<"Failed to get response after", " ">> \o IntToStr(max)
        \o <<" ", "retries due to quota/rate limit:", " ">> \o e

OtherErrorSentinel(e) == <<"An unexpected API error occurred:", " ">> \o e

UnknownReasonSentinel ==
    <<"Failed to get response after", " ", "multiple retries (unknown reason).">>

-----------------------------------------------------------------------------
(* The service behind model_instance.generate_content, as the try block of *)
(* make_gemini_call_with_retry sees it.  One request ends in one of:       *)
(*   "text"  - a response with non-empty response.text;                    *)
(*   "empty" - `response and response.text` is false and                   *)
(*             response.prompt_feedback can be read;                       *)
(*   "rate"  - exceptions.ResourceExhausted is raised;                     *)
(*   "other" - any other Exception is raised inside the try block.         *)

\* texts the service may answer a session's request with
SessionTexts == { <<"Positive">>, <<"delivery", ",", " ", "speed">> }

\* texts the service may answer a direct call with
DirectTexts == SessionTexts \cup { <<"no topics">> }

\* str(e) of the errors the service may raise in a session
SessionErrors == { <<"429 quota exceeded">> }

\* str(e) of the errors the service may raise in a direct call
DirectErrors == SessionErrors \cup { <<"503 unavailable">> }

\* what may stand between two commas of a topics response: nothing, " ",
\* "speed", " speed", " app issues "
TopicPieces ==
    { <<>>, <<" ">>, <<"speed">>, <<" ", "speed">>, <<" ", "app issues", " ">> }

\* sep.join(parts)
RECURSIVE Join(_, _)
Join(sep, parts) ==
    IF parts = <<>> THEN <<>>
    ELSE IF Len(parts) = 1 THEN parts[1]
    ELSE parts[1] \o sep \o Join(sep, Tail(parts))

\* the non-empty texts of up to MaxPieces pieces
GeneratedTopicTexts ==
    {Join(<<",">>, ps) :
        ps \in UNION {[1..k -> TopicPieces] : k \in 1..MaxPieces}} \ {<<>>}

\* texts the service may answer a call of extract_topics with: the generated
\* ones, "delivery, speed,  , app issues", "no topics", " no topics",
\* "no topics, speed", and two texts that begin as a failure sentinel does
TopicTexts ==
    GeneratedTopicTexts
    \cup { <<"delivery", ",", " ", "speed", ",", " ", " ", ",", " ", "app issues">>,
           <<"no topics">>,
           <<" ", "no topics">>,
           <<"no topics", ",", " ", "speed">>,
           <<"Failed to get response after", " ", "sales", ",", " ", "refund">>,
           <<"An unexpected API error occurred:", " ", "checkout", ",", " ", "app">> }

Texts ==
    IF call.caller = "direct" THEN DirectTexts
    ELSE IF call.caller = "extract_topics" THEN TopicTexts
    ELSE SessionTexts
Errors == IF call.caller = "direct" THEN DirectErrors ELSE SessionErrors

\* prompts and max_retries arguments of the direct calls
DirectPrompts == { <<"ping">>, <<"What is the capital of France?">> }
DirectMaxRetries == {-1, 0, 1, 3, DefaultMaxRetries}

Outcome(kind, detail) == [kind |-> kind, detail |-> detail]

-----------------------------------------------------------------------------
(* make_gemini_call_with_retry: the frame of one call *)

\* no call is running
IdleFrame ==
    [pc |-> "idle", caller |-> "none", prompt |-> <<>>, max_retries |-> 0,
     retries |-> 0, delay |-> 0, sleeps |-> <<>>, outcomes |-> <<>>,
     result |-> <<>>]

\* lines 93-94: retries = 0, delay = initial_delay
NewFrame(caller, prompt, max, initial_delay) ==
    [pc |-> "loop", caller |-> caller, prompt |-> prompt, max_retries |-> max,
     retries |-> 0, delay |-> initial_delay, sleeps |-> <<>>,
     outcomes |-> <<>>, result |-> <<>>]

\* the frame after one more request that ended in outcome o
Requested(f, o) == [f EXCEPT !.outcomes = Append(@, o)]

\* Backoff that forgets retries += 1
Backoff_keeps_retries(f) ==
    [f EXCEPT !.sleeps = Append(@, f.delay), !.delay = @ * 2]

\* Backoff that forgets delay *= 2
Backoff_constant_delay(f) ==
    [f EXCEPT !.retries = @ + 1, !.sleeps = Append(@, f.delay)]

\* Backoff with delay += 1 in place of delay *= 2
Backoff_linear_delay(f) ==
    [f EXCEPT !.retries = @ + 1, !.sleeps = Append(@, f.delay), !.delay = @ + 1]

\* lines 114-118 taken: retries += 1, time.sleep(delay), delay *= 2
Backoff(f) ==
    [f EXCEPT !.retries = @ + 1,
              !.sleeps = Append(@, f.delay),
              !.delay = @ * 2]

\* the number of requests issued by the call of frame f
Requests(f) == Len(f.outcomes)

-----------------------------------------------------------------------------
(* utils/clean.py: text normalisation, character by character.  A text is  *)
(* a sequence of characters.  A character of U+0020..U+007E or             *)
(* U+00A1..U+00FF stands for itself, as do "\t", "\n", "\f" and "\r";      *)
(* every other character is written by its code point in four to six      *)
(* hexadecimal digits, "U+0000", "U+0060" (the grave accent), "U+00A0",    *)
(* "U+0130", "U+1F600".                                                    *)

\* U+0000
Nul == "U+0000"

\* the characters by code point, 1..255
Latin1 ==
    <<
    "U+0001", "U+0002", "U+0003", "U+0004", "U+0005", "U+0006", "U+0007",
    "U+0008", "\t", "\n", "U+000B", "\f", "\r", "U+000E", "U+000F",
    "U+0010", "U+0011", "U+0012", "U+0013", "U+0014", "U+0015", "U+0016", "U+0017",
    "U+0018", "U+0019", "U+001A", "U+001B", "U+001C", "U+001D", "U+001E", "U+001F",
    " ", "!", "\"", "#", "$", "%", "&", "'",
    "(", ")", "*", "+", ",", "-", ".", "/",
    "0", "1", "2", "3", "4", "5", "6", "7",
    "8", "9", ":", ";", "<", "=", ">", "?",
    "@", "A", "B", "C", "D", "E", "F", "G",
    "H", "I", "J", "K", "L", "M", "N", "O",
    "P", "Q", "R", "S", "T", "U", "V", "W",
    "X", "Y", "Z", "[", "\\", "]", "^", "_",
    "U+0060", "a", "b", "c", "d", "e", "f", "g",
    "h", "i", "j", "k", "l", "m", "n", "o",
    "p", "q", "r", "s", "t", "u", "v", "w",
    "x", "y", "z", "{", "|", "}", "~", "U+007F",
    "U+0080", "U+0081", "U+0082", "U+0083", "U+0084", "U+0085", "U+0086", "U+0087",
    "U+0088", "U+0089", "U+008A", "U+008B", "U+008C", "U+008D", "U+008E", "U+008F",
    "U+0090", "U+0091", "U+0092", "U+0093", "U+0094", "U+0095", "U+0096", "U+0097",
    "U+0098", "U+0099", "U+009A", "U+009B", "U+009C", "U+009D", "U+009E", "U+009F",
    "U+00A0", "¡", "¢", "£", "¤", "¥", "¦", "§",
    "¨", "©", "ª", "«", "¬", "U+00AD", "®", "¯",
    "°", "±", "²", "³", "´", "µ", "¶", "·",
    "¸", "¹", "º", "»", "¼", "½", "¾", "¿",
    "À", "Á", "Â", "Ã", "Ä", "Å", "Æ", "Ç",
    "È", "É", "Ê", "Ë", "Ì", "Í", "Î", "Ï",
    "Ð", "Ñ", "Ò", "Ó", "Ô", "Õ", "Ö", "×",
    "Ø", "Ù", "Ú", "Û", "Ü", "Ý", "Þ", "ß",
    "à", "á", "â", "ã", "ä", "å", "æ", "ç",
    "è", "é", "ê", "ë", "ì", "í", "î", "ï",
    "ð", "ñ", "ò", "ó", "ô", "õ", "ö", "÷",
    "ø", "ù", "ú", "û", "ü", "ý", "þ", "ÿ"
    >>

\* the characters of a string of this module, each standing for itself
Chars(str) == [k \in 1..Len(str) |-> SubSeq(str, k, k)]

\* the characters of the code points in codes
CodePoints(codes) == {Latin1[k] : k \in codes}

\* U+0000..U+00FF
Latin1Chars == CodePoints(1..255) \cup {Nul}

\* the value of a numeral of upper-case hexadecimal digits
RECURSIVE HexNumber(_)
HexNumber(str) ==
    IF Len(str) = 0 THEN 0
    ELSE HexNumber(SubSeq(str, 1, Len(str) - 1)) * 16
         + (CHOOSE v \in 0..15 :
                SubSeq("0123456789ABCDEF", v + 1, v + 1)
                    = SubSeq(str, Len(str), Len(str)))

\* "%X" % n
RECURSIVE Hex(_)
Hex(n) ==
    IF n < 16 THEN SubSeq("0123456789ABCDEF", n + 1, n + 1)
    ELSE Hex(n \div 16) \o SubSeq("0123456789ABCDEF", (n % 16) + 1, (n % 16) + 1)

\* ord(c)
Code(c) ==
    IF c = Nul THEN 0
    ELSE IF c \in Latin1Chars THEN CHOOSE k \in 1..255 : Latin1[k] = c
    ELSE HexNumber(SubSeq(c, 3, Len(c)))

\* chr(n)
chr(n) ==
    IF n = 0 THEN Nul
    ELSE IF n <= 255 THEN Latin1[n]
    ELSE IF n < 4096 THEN "U+0" \o Hex(n)
    ELSE "U+" \o Hex(n)

UpperLetters == CodePoints(65..90)
LowerLetters == CodePoints(97..122)
Digits == CodePoints(48..57)
HexDigits == Digits \cup CodePoints((65..70) \cup (97..102))

\* n lies in one of the ranges <<first, last>>
InRanges(n, ranges) == \E r \in ranges : r[1] <= n /\ n <= r[2]

\* the code points above U+00FF of str.isspace()
SpaceCodes ==
    {5760, 8192, 8193, 8194, 8195, 8196, 8197, 8198, 8199, 8200, 8201, 8202, 8232, 8233, 8239, 8287, 12288}

\* str.isspace() of U+0000..U+00FF
SpaceChars == CodePoints((9..13) \cup (28..32) \cup {133, 160})

\* the characters of U+0000..U+00FF that str.lower() changes
UpperChars == UpperLetters \cup CodePoints((192..214) \cup (216..222))

\* str.isalnum() or "_" of U+0000..U+00FF
WordChars ==
    UpperLetters \cup LowerLetters \cup Digits \cup {"_"}
    \cup CodePoints({170, 178, 179, 181, 185, 186} \cup (188..190)
                    \cup (192..214) \cup (216..246) \cup (248..255))

\* the code points above U+00FF that \w matches, as ranges <<first, last>>
WordRanges ==
    {
    <<256, 705>>, <<710, 721>>, <<736, 740>>, <<748, 748>>, <<750, 750>>,
    <<880, 884>>, <<886, 887>>, <<890, 893>>, <<895, 895>>, <<902, 902>>,
    <<904, 906>>, <<908, 908>>, <<910, 929>>, <<931, 1013>>, <<1015, 1153>>,
    <<1162, 1327>>, <<1329, 1366>>, <<1369, 1369>>, <<1376, 1416>>,
    <<1488, 1514>>, <<1519, 1522>>, <<1568, 1610>>, <<1632, 1641>>,
    <<1646, 1647>>, <<1649, 1747>>, <<1749, 1749>>, <<1765, 1766>>,
    <<1774, 1788>>, <<1791, 1791>>, <<1808, 1808>>, <<1810, 1839>>,
    <<1869, 1957>>, <<1969, 1969>>, <<1984, 2026>>, <<2036, 2037>>,
    <<2042, 2042>>, <<2048, 2069>>, <<2074, 2074>>, <<2084, 2084>>,
    <<2088, 2088>>, <<2112, 2136>>, <<2144, 2154>>, <<2160, 2183>>,
    <<2185, 2190>>, <<2208, 2249>>, <<2308, 2361>>, <<2365, 2365>>,
    <<2384, 2384>>, <<2392, 2401>>, <<2406, 2415>>, <<2417, 2432>>,
    <<2437, 2444>>, <<2447, 2448>>, <<2451, 2472>>, <<2474, 2480>>,
    <<2482, 2482>>, <<2486, 2489>>, <<2493, 2493>>, <<2510, 2510>>,
    <<2524, 2525>>, <<2527, 2529>>, <<2534, 2545>>, <<2548, 2553>>,
    <<2556, 2556>>, <<2565, 2570>>, <<2575, 2576>>, <<2579, 2600>>,
    <<2602, 2608>>, <<2610, 2611>>, <<2613, 2614>>, <<2616, 2617>>,
    <<2649, 2652>>, <<2654, 2654>>, <<2662, 2671>>, <<2674, 2676>>,
    <<2693, 2701>>, <<2703, 2705>>, <<2707, 2728>>, <<2730, 2736>>,
    <<2738, 2739>>, <<2741, 2745>>, <<2749, 2749>>, <<2768, 2768>>,
    <<2784, 2785>>, <<2790, 2799>>, <<2809, 2809>>, <<2821, 2828>>,
    <<2831, 2832>>, <<2835, 2856>>, <<2858, 2864>>, <<2866, 2867>>,
    <<2869, 2873>>, <<2877, 2877>>, <<2908, 2909>>, <<2911, 2913>>,
    <<2918, 2927>>, <<2929, 2935>>, <<2947, 2947>>, <<2949, 2954>>,
    <<2958, 2960>>, <<2962, 2965>>, <<2969, 2970>>, <<2972, 2972>>,
    <<2974, 2975>>, <<2979, 2980>>, <<2984, 2986>>, <<2990, 3001>>,
    <<3024, 3024>>, <<3046, 3058>>, <<3077, 3084>>, <<3086, 3088>>,
    <<3090, 3112>>, <<3114, 3129>>, <<3133, 3133>>, <<3160, 3162>>,
    <<3165, 3165>>, <<3168, 3169>>, <<3174, 3183>>, <<3192, 3198>>,
    <<3200, 3200>>, <<3205, 3212>>, <<3214, 3216>>, <<3218, 3240>>,
    <<3242, 3251>>, <<3253, 3257>>, <<3261, 3261>>, <<3293, 3294>>,
    <<3296, 3297>>, <<3302, 3311>>, <<3313, 3314>>, <<3332, 3340>>,
    <<3342, 3344>>, <<3346, 3386>>, <<3389, 3389>>, <<3406, 3406>>,
    <<3412, 3414>>, <<3416, 3425>>, <<3430, 3448>>, <<3450, 3455>>,
    <<3461, 3478>>, <<3482, 3505>>, <<3507, 3515>>, <<3517, 3517>>,
    <<3520, 3526>>, <<3558, 3567>>, <<3585, 3632>>, <<3634, 3635>>,
    <<3648, 3654>>, <<3664, 3673>>, <<3713, 3714>>, <<3716, 3716>>,
    <<3718, 3722>>, <<3724, 3747>>, <<3749, 3749>>, <<3751, 3760>>,
    <<3762, 3763>>, <<3773, 3773>>, <<3776, 3780>>, <<3782, 3782>>,
    <<3792, 3801>>, <<3804, 3807>>, <<3840, 3840>>, <<3872, 3891>>,
    <<3904, 3911>>, <<3913, 3948>>, <<3976, 3980>>, <<4096, 4138>>,
    <<4159, 4169>>, <<4176, 4181>>, <<4186, 4189>>, <<4193, 4193>>,
    <<4197, 4198>>, <<4206, 4208>>, <<4213, 4225>>, <<4238, 4238>>,
    <<4240, 4249>>, <<4256, 4293>>, <<4295, 4295>>, <<4301, 4301>>,
    <<4304, 4346>>, <<4348, 4680>>, <<4682, 4685>>, <<4688, 4694>>,
    <<4696, 4696>>, <<4698, 4701>>, <<4704, 4744>>, <<4746, 4749>>,
    <<4752, 4784>>, <<4786, 4789>>, <<4792, 4798>>, <<4800, 4800>>,
    <<4802, 4805>>, <<4808, 4822>>, <<4824, 4880>>, <<4882, 4885>>,
    <<4888, 4954>>, <<4969, 4988>>, <<4992, 5007>>, <<5024, 5109>>,
    <<5112, 5117>>, <<5121, 5740>>, <<5743, 5759>>, <<5761, 5786>>,
    <<5792, 5866>>, <<5870, 5880>>, <<5888, 5905>>, <<5919, 5937>>,
    <<5952, 5969>>, <<5984, 5996>>, <<5998, 6000>>, <<6016, 6067>>,
    <<6103, 6103>>, <<6108, 6108>>, <<6112, 6121>>, <<6128, 6137>>,
    <<6160, 6169>>, <<6176, 6264>>, <<6272, 6276>>, <<6279, 6312>>,
    <<6314, 6314>>, <<6320, 6389>>, <<6400, 6430>>, <<6470, 6509>>,
    <<6512, 6516>>, <<6528, 6571>>, <<6576, 6601>>, <<6608, 6618>>,
    <<6656, 6678>>, <<6688, 6740>>, <<6784, 6793>>, <<6800, 6809>>,
    <<6823, 6823>>, <<6917, 6963>>, <<6981, 6988>>, <<6992, 7001>>,
    <<7043, 7072>>, <<7086, 7141>>, <<7168, 7203>>, <<7232, 7241>>,
    <<7245, 7293>>, <<7296, 7304>>, <<7312, 7354>>, <<7357, 7359>>,
    <<7401, 7404>>, <<7406, 7411>>, <<7413, 7414>>, <<7418, 7418>>,
    <<7424, 7615>>, <<7680, 7957>>, <<7960, 7965>>, <<7968, 8005>>,
    <<8008, 8013>>, <<8016, 8023>>, <<8025, 8025>>, <<8027, 8027>>,
    <<8029, 8029>>, <<8031, 8061>>, <<8064, 8116>>, <<8118, 8124>>,
    <<8126, 8126>>, <<8130, 8132>>, <<8134, 8140>>, <<8144, 8147>>,
    <<8150, 8155>>, <<8160, 8172>>, <<8178, 8180>>, <<8182, 8188>>,
    <<8304, 8305>>, <<8308, 8313>>, <<8319, 8329>>, <<8336, 8348>>,
    <<8450, 8450>>, <<8455, 8455>>, <<8458, 8467>>, <<8469, 8469>>,
    <<8473, 8477>>, <<8484, 8484>>, <<8486, 8486>>, <<8488, 8488>>,
    <<8490, 8493>>, <<8495, 8505>>, <<8508, 8511>>, <<8517, 8521>>,
    <<8526, 8526>>, <<8528, 8585>>, <<9312, 9371>>, <<9450, 9471>>,
    <<10102, 10131>>, <<11264, 11492>>, <<11499, 11502>>, <<11506, 11507>>,
    <<11517, 11517>>, <<11520, 11557>>, <<11559, 11559>>, <<11565, 11565>>,
    <<11568, 11623>>, <<11631, 11631>>, <<11648, 11670>>, <<11680, 11686>>,
    <<11688, 11694>>, <<11696, 11702>>, <<11704, 11710>>, <<11712, 11718>>,
    <<11720, 11726>>, <<11728, 11734>>, <<11736, 11742>>, <<11823, 11823>>,
    <<12293, 12295>>, <<12321, 12329>>, <<12337, 12341>>, <<12344, 12348>>,
    <<12353, 12438>>, <<12445, 12447>>, <<12449, 12538>>, <<12540, 12543>>,
    <<12549, 12591>>, <<12593, 12686>>, <<12690, 12693>>, <<12704, 12735>>,
    <<12784, 12799>>, <<12832, 12841>>, <<12872, 12879>>, <<12881, 12895>>,
    <<12928, 12937>>, <<12977, 12991>>, <<13312, 19903>>, <<19968, 42124>>,
    <<42192, 42237>>, <<42240, 42508>>, <<42512, 42539>>, <<42560, 42606>>,
    <<42623, 42653>>, <<42656, 42735>>, <<42775, 42783>>, <<42786, 42888>>,
    <<42891, 42954>>, <<42960, 42961>>, <<42963, 42963>>, <<42965, 42969>>,
    <<42994, 43009>>, <<43011, 43013>>, <<43015, 43018>>, <<43020, 43042>>,
    <<43056, 43061>>, <<43072, 43123>>, <<43138, 43187>>, <<43216, 43225>>,
    <<43250, 43255>>, <<43259, 43259>>, <<43261, 43262>>, <<43264, 43301>>,
    <<43312, 43334>>, <<43360, 43388>>, <<43396, 43442>>, <<43471, 43481>>,
    <<43488, 43492>>, <<43494, 43518>>, <<43520, 43560>>, <<43584, 43586>>,
    <<43588, 43595>>, <<43600, 43609>>, <<43616, 43638>>, <<43642, 43642>>,
    <<43646, 43695>>, <<43697, 43697>>, <<43701, 43702>>, <<43705, 43709>>,
    <<43712, 43712>>, <<43714, 43714>>, <<43739, 43741>>, <<43744, 43754>>,
    <<43762, 43764>>, <<43777, 43782>>, <<43785, 43790>>, <<43793, 43798>>,
    <<43808, 43814>>, <<43816, 43822>>, <<43824, 43866>>, <<43868, 43881>>,
    <<43888, 44002>>, <<44016, 44025>>, <<44032, 55203>>, <<55216, 55238>>,
    <<55243, 55291>>, <<63744, 64109>>, <<64112, 64217>>, <<64256, 64262>>,
    <<64275, 64279>>, <<64285, 64285>>, <<64287, 64296>>, <<64298, 64310>>,
    <<64312, 64316>>, <<64318, 64318>>, <<64320, 64321>>, <<64323, 64324>>,
    <<64326, 64433>>, <<64467, 64829>>, <<64848, 64911>>, <<64914, 64967>>,
    <<65008, 65019>>, <<65136, 65140>>, <<65142, 65276>>, <<65296, 65305>>,
    <<65313, 65338>>, <<65345, 65370>>, <<65382, 65470>>, <<65474, 65479>>,
    <<65482, 65487>>, <<65490, 65495>>, <<65498, 65500>>, <<65536, 65547>>,
    <<65549, 65574>>, <<65576, 65594>>, <<65596, 65597>>, <<65599, 65613>>,
    <<65616, 65629>>, <<65664, 65786>>, <<65799, 65843>>, <<65856, 65912>>,
    <<65930, 65931>>, <<66176, 66204>>, <<66208, 66256>>, <<66273, 66299>>,
    <<66304, 66339>>, <<66349, 66378>>, <<66384, 66421>>, <<66432, 66461>>,
    <<66464, 66499>>, <<66504, 66511>>, <<66513, 66517>>, <<66560, 66717>>,
    <<66720, 66729>>, <<66736, 66771>>, <<66776, 66811>>, <<66816, 66855>>,
    <<66864, 66915>>, <<66928, 66938>>, <<66940, 66954>>, <<66956, 66962>>,
    <<66964, 66965>>, <<66967, 66977>>, <<66979, 66993>>, <<66995, 67001>>,
    <<67003, 67004>>, <<67072, 67382>>, <<67392, 67413>>, <<67424, 67431>>,
    <<67456, 67461>>, <<67463, 67504>>, <<67506, 67514>>, <<67584, 67589>>,
    <<67592, 67592>>, <<67594, 67637>>, <<67639, 67640>>, <<67644, 67644>>,
    <<67647, 67669>>, <<67672, 67702>>, <<67705, 67742>>, <<67751, 67759>>,
    <<67808, 67826>>, <<67828, 67829>>, <<67835, 67867>>, <<67872, 67897>>,
    <<67968, 68023>>, <<68028, 68047>>, <<68050, 68096>>, <<68112, 68115>>,
    <<68117, 68119>>, <<68121, 68149>>, <<68160, 68168>>, <<68192, 68222>>,
    <<68224, 68255>>, <<68288, 68295>>, <<68297, 68324>>, <<68331, 68335>>,
    <<68352, 68405>>, <<68416, 68437>>, <<68440, 68466>>, <<68472, 68497>>,
    <<68521, 68527>>, <<68608, 68680>>, <<68736, 68786>>, <<68800, 68850>>,
    <<68858, 68899>>, <<68912, 68921>>, <<69216, 69246>>, <<69248, 69289>>,
    <<69296, 69297>>, <<69376, 69415>>, <<69424, 69445>>, <<69457, 69460>>,
    <<69488, 69505>>, <<69552, 69579>>, <<69600, 69622>>, <<69635, 69687>>,
    <<69714, 69743>>, <<69745, 69746>>, <<69749, 69749>>, <<69763, 69807>>,
    <<69840, 69864>>, <<69872, 69881>>, <<69891, 69926>>, <<69942, 69951>>,
    <<69956, 69956>>, <<69959, 69959>>, <<69968, 70002>>, <<70006, 70006>>,
    <<70019, 70066>>, <<70081, 70084>>, <<70096, 70106>>, <<70108, 70108>>,
    <<70113, 70132>>, <<70144, 70161>>, <<70163, 70187>>, <<70272, 70278>>,
    <<70280, 70280>>, <<70282, 70285>>, <<70287, 70301>>, <<70303, 70312>>,
    <<70320, 70366>>, <<70384, 70393>>, <<70405, 70412>>, <<70415, 70416>>,
    <<70419, 70440>>, <<70442, 70448>>, <<70450, 70451>>, <<70453, 70457>>,
    <<70461, 70461>>, <<70480, 70480>>, <<70493, 70497>>, <<70656, 70708>>,
    <<70727, 70730>>, <<70736, 70745>>, <<70751, 70753>>, <<70784, 70831>>,
    <<70852, 70853>>, <<70855, 70855>>, <<70864, 70873>>, <<71040, 71086>>,
    <<71128, 71131>>, <<71168, 71215>>, <<71236, 71236>>, <<71248, 71257>>,
    <<71296, 71338>>, <<71352, 71352>>, <<71360, 71369>>, <<71424, 71450>>,
    <<71472, 71483>>, <<71488, 71494>>, <<71680, 71723>>, <<71840, 71922>>,
    <<71935, 71942>>, <<71945, 71945>>, <<71948, 71955>>, <<71957, 71958>>,
    <<71960, 71983>>, <<71999, 71999>>, <<72001, 72001>>, <<72016, 72025>>,
    <<72096, 72103>>, <<72106, 72144>>, <<72161, 72161>>, <<72163, 72163>>,
    <<72192, 72192>>, <<72203, 72242>>, <<72250, 72250>>, <<72272, 72272>>,
    <<72284, 72329>>, <<72349, 72349>>, <<72368, 72440>>, <<72704, 72712>>,
    <<72714, 72750>>, <<72768, 72768>>, <<72784, 72812>>, <<72818, 72847>>,
    <<72960, 72966>>, <<72968, 72969>>, <<72971, 73008>>, <<73030, 73030>>,
    <<73040, 73049>>, <<73056, 73061>>, <<73063, 73064>>, <<73066, 73097>>,
    <<73112, 73112>>, <<73120, 73129>>, <<73440, 73458>>, <<73648, 73648>>,
    <<73664, 73684>>, <<73728, 74649>>, <<74752, 74862>>, <<74880, 75075>>,
    <<77712, 77808>>, <<77824, 78894>>, <<82944, 83526>>, <<92160, 92728>>,
    <<92736, 92766>>, <<92768, 92777>>, <<92784, 92862>>, <<92864, 92873>>,
    <<92880, 92909>>, <<92928, 92975>>, <<92992, 92995>>, <<93008, 93017>>,
    <<93019, 93025>>, <<93027, 93047>>, <<93053, 93071>>, <<93760, 93846>>,
    <<93952, 94026>>, <<94032, 94032>>, <<94099, 94111>>, <<94176, 94177>>,
    <<94179, 94179>>, <<94208, 100343>>, <<100352, 101589>>,
    <<101632, 101640>>, <<110576, 110579>>, <<110581, 110587>>,
    <<110589, 110590>>, <<110592, 110882>>, <<110928, 110930>>,
    <<110948, 110951>>, <<110960, 111355>>, <<113664, 113770>>,
    <<113776, 113788>>, <<113792, 113800>>, <<113808, 113817>>,
    <<119520, 119539>>, <<119648, 119672>>, <<119808, 119892>>,
    <<119894, 119964>>, <<119966, 119967>>, <<119970, 119970>>,
    <<119973, 119974>>, <<119977, 119980>>, <<119982, 119993>>,
    <<119995, 119995>>, <<119997, 120003>>, <<120005, 120069>>,
    <<120071, 120074>>, <<120077, 120084>>, <<120086, 120092>>,
    <<120094, 120121>>, <<120123, 120126>>, <<120128, 120132>>,
    <<120134, 120134>>, <<120138, 120144>>, <<120146, 120485>>,
    <<120488, 120512>>, <<120514, 120538>>, <<120540, 120570>>,
    <<120572, 120596>>, <<120598, 120628>>, <<120630, 120654>>,
    <<120656, 120686>>, <<120688, 120712>>, <<120714, 120744>>,
    <<120746, 120770>>, <<120772, 120779>>, <<120782, 120831>>,
    <<122624, 122654>>, <<123136, 123180>>, <<123191, 123197>>,
    <<123200, 123209>>, <<123214, 123214>>, <<123536, 123565>>,
    <<123584, 123627>>, <<123632, 123641>>, <<124896, 124902>>,
    <<124904, 124907>>, <<124909, 124910>>, <<124912, 124926>>,
    <<124928, 125124>>, <<125127, 125135>>, <<125184, 125251>>,
    <<125259, 125259>>, <<125264, 125273>>, <<126065, 126123>>,
    <<126125, 126127>>, <<126129, 126132>>, <<126209, 126253>>,
    <<126255, 126269>>, <<126464, 126467>>, <<126469, 126495>>,
    <<126497, 126498>>, <<126500, 126500>>, <<126503, 126503>>,
    <<126505, 126514>>, <<126516, 126519>>, <<126521, 126521>>,
    <<126523, 126523>>, <<126530, 126530>>, <<126535, 126535>>,
    <<126537, 126537>>, <<126539, 126539>>, <<126541, 126543>>,
    <<126545, 126546>>, <<126548, 126548>>, <<126551, 126551>>,
    <<126553, 126553>>, <<126555, 126555>>, <<126557, 126557>>,
    <<126559, 126559>>, <<126561, 126562>>, <<126564, 126564>>,
    <<126567, 126570>>, <<126572, 126578>>, <<126580, 126583>>,
    <<126585, 126588>>, <<126590, 126590>>, <<126592, 126601>>,
    <<126603, 126619>>, <<126625, 126627>>, <<126629, 126633>>,
    <<126635, 126651>>, <<127232, 127244>>, <<130032, 130041>>,
    <<131072, 173791>>, <<173824, 177976>>, <<177984, 178205>>,
    <<178208, 183969>>, <<183984, 191456>>, <<194560, 195101>>,
    <<196608, 201546>> }

\* the code points above U+00FF that str.lower() changes into one other
\* character, as runs <<first, last, step, difference>>: the characters
\* first, first + step, .. last become the characters `difference` above
LowerRuns ==
    {
    <<256, 302, 2, 1>>, <<306, 310, 2, 1>>, <<313, 327, 2, 1>>,
    <<330, 374, 2, 1>>, <<376, 376, 1, -121>>, <<377, 381, 2, 1>>,
    <<385, 385, 1, 210>>, <<386, 388, 2, 1>>, <<390, 390, 1, 206>>,
    <<391, 391, 1, 1>>, <<393, 394, 1, 205>>, <<395, 395, 1, 1>>,
    <<398, 398, 1, 79>>, <<399, 399, 1, 202>>, <<400, 400, 1, 203>>,
    <<401, 401, 1, 1>>, <<403, 403, 1, 205>>, <<404, 404, 1, 207>>,
    <<406, 406, 1, 211>>, <<407, 407, 1, 209>>, <<408, 408, 1, 1>>,
    <<412, 412, 1, 211>>, <<413, 413, 1, 213>>, <<415, 415, 1, 214>>,
    <<416, 420, 2, 1>>, <<422, 422, 1, 218>>, <<423, 423, 1, 1>>,
    <<425, 425, 1, 218>>, <<428, 428, 1, 1>>, <<430, 430, 1, 218>>,
    <<431, 431, 1, 1>>, <<433, 434, 1, 217>>, <<435, 437, 2, 1>>,
    <<439, 439, 1, 219>>, <<440, 440, 1, 1>>, <<444, 444, 1, 1>>,
    <<452, 452, 1, 2>>, <<453, 453, 1, 1>>, <<455, 455, 1, 2>>,
    <<456, 456, 1, 1>>, <<458, 458, 1, 2>>, <<459, 475, 2, 1>>,
    <<478, 494, 2, 1>>, <<497, 497, 1, 2>>, <<498, 500, 2, 1>>,
    <<502, 502, 1, -97>>, <<503, 503, 1, -56>>, <<504, 542, 2, 1>>,
    <<544, 544, 1, -130>>, <<546, 562, 2, 1>>, <<570, 570, 1, 10795>>,
    <<571, 571, 1, 1>>, <<573, 573, 1, -163>>, <<574, 574, 1, 10792>>,
    <<577, 577, 1, 1>>, <<579, 579, 1, -195>>, <<580, 580, 1, 69>>,
    <<581, 581, 1, 71>>, <<582, 590, 2, 1>>, <<880, 882, 2, 1>>,
    <<886, 886, 1, 1>>, <<895, 895, 1, 116>>, <<902, 902, 1, 38>>,
    <<904, 906, 1, 37>>, <<908, 908, 1, 64>>, <<910, 911, 1, 63>>,
    <<913, 929, 1, 32>>, <<931, 939, 1, 32>>, <<975, 975, 1, 8>>,
    <<984, 1006, 2, 1>>, <<1012, 1012, 1, -60>>, <<1015, 1015, 1, 1>>,
    <<1017, 1017, 1, -7>>, <<1018, 1018, 1, 1>>, <<1021, 1023, 1, -130>>,
    <<1024, 1039, 1, 80>>, <<1040, 1071, 1, 32>>, <<1120, 1152, 2, 1>>,
    <<1162, 1214, 2, 1>>, <<1216, 1216, 1, 15>>, <<1217, 1229, 2, 1>>,
    <<1232, 1326, 2, 1>>, <<1329, 1366, 1, 48>>, <<4256, 4293, 1, 7264>>,
    <<4295, 4295, 1, 7264>>, <<4301, 4301, 1, 7264>>,
    <<5024, 5103, 1, 38864>>, <<5104, 5109, 1, 8>>, <<7312, 7354, 1, -3008>>,
    <<7357, 7359, 1, -3008>>, <<7680, 7828, 2, 1>>, <<7838, 7838, 1, -7615>>,
    <<7840, 7934, 2, 1>>, <<7944, 7951, 1, -8>>, <<7960, 7965, 1, -8>>,
    <<7976, 7983, 1, -8>>, <<7992, 7999, 1, -8>>, <<8008, 8013, 1, -8>>,
    <<8025, 8031, 2, -8>>, <<8040, 8047, 1, -8>>, <<8072, 8079, 1, -8>>,
    <<8088, 8095, 1, -8>>, <<8104, 8111, 1, -8>>, <<8120, 8121, 1, -8>>,
    <<8122, 8123, 1, -74>>, <<8124, 8124, 1, -9>>, <<8136, 8139, 1, -86>>,
    <<8140, 8140, 1, -9>>, <<8152, 8153, 1, -8>>, <<8154, 8155, 1, -100>>,
    <<8168, 8169, 1, -8>>, <<8170, 8171, 1, -112>>, <<8172, 8172, 1, -7>>,
    <<8184, 8185, 1, -128>>, <<8186, 8187, 1, -126>>, <<8188, 8188, 1, -9>>,
    <<8486, 8486, 1, -7517>>, <<8490, 8490, 1, -8383>>,
    <<8491, 8491, 1, -8262>>, <<8498, 8498, 1, 28>>, <<8544, 8559, 1, 16>>,
    <<8579, 8579, 1, 1>>, <<9398, 9423, 1, 26>>, <<11264, 11311, 1, 48>>,
    <<11360, 11360, 1, 1>>, <<11362, 11362, 1, -10743>>,
    <<11363, 11363, 1, -3814>>, <<11364, 11364, 1, -10727>>,
    <<11367, 11371, 2, 1>>, <<11373, 11373, 1, -10780>>,
    <<11374, 11374, 1, -10749>>, <<11375, 11375, 1, -10783>>,
    <<11376, 11376, 1, -10782>>, <<11378, 11378, 1, 1>>,
    <<11381, 11381, 1, 1>>, <<11390, 11391, 1, -10815>>,
    <<11392, 11490, 2, 1>>, <<11499, 11501, 2, 1>>, <<11506, 11506, 1, 1>>,
    <<42560, 42604, 2, 1>>, <<42624, 42650, 2, 1>>, <<42786, 42798, 2, 1>>,
    <<42802, 42862, 2, 1>>, <<42873, 42875, 2, 1>>,
    <<42877, 42877, 1, -35332>>, <<42878, 42886, 2, 1>>,
    <<42891, 42891, 1, 1>>, <<42893, 42893, 1, -42280>>,
    <<42896, 42898, 2, 1>>, <<42902, 42920, 2, 1>>,
    <<42922, 42922, 1, -42308>>, <<42923, 42923, 1, -42319>>,
    <<42924, 42924, 1, -42315>>, <<42925, 42925, 1, -42305>>,
    <<42926, 42926, 1, -42308>>, <<42928, 42928, 1, -42258>>,
    <<42929, 42929, 1, -42282>>, <<42930, 42930, 1, -42261>>,
    <<42931, 42931, 1, 928>>, <<42932, 42946, 2, 1>>,
    <<42948, 42948, 1, -48>>, <<42949, 42949, 1, -42307>>,
    <<42950, 42950, 1, -35384>>, <<42951, 42953, 2, 1>>,
    <<42960, 42960, 1, 1>>, <<42966, 42968, 2, 1>>, <<42997, 42997, 1, 1>>,
    <<65313, 65338, 1, 32>>, <<66560, 66599, 1, 40>>,
    <<66736, 66771, 1, 40>>, <<66928, 66938, 1, 39>>,
    <<66940, 66954, 1, 39>>, <<66956, 66962, 1, 39>>,
    <<66964, 66965, 1, 39>>, <<68736, 68786, 1, 64>>,
    <<71840, 71871, 1, 32>>, <<93760, 93791, 1, 32>>,
    <<125184, 125217, 1, 34>> }

\* the code points Python takes for case-ignorable (Case_Ignorable)
CaseIgnorableRanges ==
    {
    <<39, 39>>, <<46, 46>>, <<58, 58>>, <<94, 94>>, <<96, 96>>, <<168, 168>>,
    <<173, 173>>, <<175, 175>>, <<180, 180>>, <<183, 184>>, <<688, 879>>,
    <<884, 885>>, <<890, 890>>, <<900, 901>>, <<903, 903>>, <<1155, 1161>>,
    <<1369, 1369>>, <<1375, 1375>>, <<1425, 1469>>, <<1471, 1471>>,
    <<1473, 1474>>, <<1476, 1477>>, <<1479, 1479>>, <<1524, 1524>>,
    <<1536, 1541>>, <<1552, 1562>>, <<1564, 1564>>, <<1600, 1600>>,
    <<1611, 1631>>, <<1648, 1648>>, <<1750, 1757>>, <<1759, 1768>>,
    <<1770, 1773>>, <<1807, 1807>>, <<1809, 1809>>, <<1840, 1866>>,
    <<1958, 1968>>, <<2027, 2037>>, <<2042, 2042>>, <<2045, 2045>>,
    <<2070, 2093>>, <<2137, 2139>>, <<2184, 2184>>, <<2192, 2193>>,
    <<2200, 2207>>, <<2249, 2306>>, <<2362, 2362>>, <<2364, 2364>>,
    <<2369, 2376>>, <<2381, 2381>>, <<2385, 2391>>, <<2402, 2403>>,
    <<2417, 2417>>, <<2433, 2433>>, <<2492, 2492>>, <<2497, 2500>>,
    <<2509, 2509>>, <<2530, 2531>>, <<2558, 2558>>, <<2561, 2562>>,
    <<2620, 2620>>, <<2625, 2626>>, <<2631, 2632>>, <<2635, 2637>>,
    <<2641, 2641>>, <<2672, 2673>>, <<2677, 2677>>, <<2689, 2690>>,
    <<2748, 2748>>, <<2753, 2757>>, <<2759, 2760>>, <<2765, 2765>>,
    <<2786, 2787>>, <<2810, 2815>>, <<2817, 2817>>, <<2876, 2876>>,
    <<2879, 2879>>, <<2881, 2884>>, <<2893, 2893>>, <<2901, 2902>>,
    <<2914, 2915>>, <<2946, 2946>>, <<3008, 3008>>, <<3021, 3021>>,
    <<3072, 3072>>, <<3076, 3076>>, <<3132, 3132>>, <<3134, 3136>>,
    <<3142, 3144>>, <<3146, 3149>>, <<3157, 3158>>, <<3170, 3171>>,
    <<3201, 3201>>, <<3260, 3260>>, <<3263, 3263>>, <<3270, 3270>>,
    <<3276, 3277>>, <<3298, 3299>>, <<3328, 3329>>, <<3387, 3388>>,
    <<3393, 3396>>, <<3405, 3405>>, <<3426, 3427>>, <<3457, 3457>>,
    <<3530, 3530>>, <<3538, 3540>>, <<3542, 3542>>, <<3633, 3633>>,
    <<3636, 3642>>, <<3654, 3662>>, <<3761, 3761>>, <<3764, 3772>>,
    <<3782, 3782>>, <<3784, 3789>>, <<3864, 3865>>, <<3893, 3893>>,
    <<3895, 3895>>, <<3897, 3897>>, <<3953, 3966>>, <<3968, 3972>>,
    <<3974, 3975>>, <<3981, 3991>>, <<3993, 4028>>, <<4038, 4038>>,
    <<4141, 4144>>, <<4146, 4151>>, <<4153, 4154>>, <<4157, 4158>>,
    <<4184, 4185>>, <<4190, 4192>>, <<4209, 4212>>, <<4226, 4226>>,
    <<4229, 4230>>, <<4237, 4237>>, <<4253, 4253>>, <<4348, 4348>>,
    <<4957, 4959>>, <<5906, 5908>>, <<5938, 5939>>, <<5970, 5971>>,
    <<6002, 6003>>, <<6068, 6069>>, <<6071, 6077>>, <<6086, 6086>>,
    <<6089, 6099>>, <<6103, 6103>>, <<6109, 6109>>, <<6155, 6159>>,
    <<6211, 6211>>, <<6277, 6278>>, <<6313, 6313>>, <<6432, 6434>>,
    <<6439, 6440>>, <<6450, 6450>>, <<6457, 6459>>, <<6679, 6680>>,
    <<6683, 6683>>, <<6742, 6742>>, <<6744, 6750>>, <<6752, 6752>>,
    <<6754, 6754>>, <<6757, 6764>>, <<6771, 6780>>, <<6783, 6783>>,
    <<6823, 6823>>, <<6832, 6862>>, <<6912, 6915>>, <<6964, 6964>>,
    <<6966, 6970>>, <<6972, 6972>>, <<6978, 6978>>, <<7019, 7027>>,
    <<7040, 7041>>, <<7074, 7077>>, <<7080, 7081>>, <<7083, 7085>>,
    <<7142, 7142>>, <<7144, 7145>>, <<7149, 7149>>, <<7151, 7153>>,
    <<7212, 7219>>, <<7222, 7223>>, <<7288, 7293>>, <<7376, 7378>>,
    <<7380, 7392>>, <<7394, 7400>>, <<7405, 7405>>, <<7412, 7412>>,
    <<7416, 7417>>, <<7468, 7530>>, <<7544, 7544>>, <<7579, 7679>>,
    <<8125, 8125>>, <<8127, 8129>>, <<8141, 8143>>, <<8157, 8159>>,
    <<8173, 8175>>, <<8189, 8190>>, <<8203, 8207>>, <<8216, 8217>>,
    <<8228, 8228>>, <<8231, 8231>>, <<8234, 8238>>, <<8288, 8292>>,
    <<8294, 8303>>, <<8305, 8305>>, <<8319, 8319>>, <<8336, 8348>>,
    <<8400, 8432>>, <<11388, 11389>>, <<11503, 11505>>, <<11631, 11631>>,
    <<11647, 11647>>, <<11744, 11775>>, <<11823, 11823>>, <<12293, 12293>>,
    <<12330, 12333>>, <<12337, 12341>>, <<12347, 12347>>, <<12441, 12446>>,
    <<12540, 12542>>, <<40981, 40981>>, <<42232, 42237>>, <<42508, 42508>>,
    <<42607, 42610>>, <<42612, 42621>>, <<42623, 42623>>, <<42652, 42655>>,
    <<42736, 42737>>, <<42752, 42785>>, <<42864, 42864>>, <<42888, 42890>>,
    <<42994, 42996>>, <<43000, 43001>>, <<43010, 43010>>, <<43014, 43014>>,
    <<43019, 43019>>, <<43045, 43046>>, <<43052, 43052>>, <<43204, 43205>>,
    <<43232, 43249>>, <<43263, 43263>>, <<43302, 43309>>, <<43335, 43345>>,
    <<43392, 43394>>, <<43443, 43443>>, <<43446, 43449>>, <<43452, 43453>>,
    <<43471, 43471>>, <<43493, 43494>>, <<43561, 43566>>, <<43569, 43570>>,
    <<43573, 43574>>, <<43587, 43587>>, <<43596, 43596>>, <<43632, 43632>>,
    <<43644, 43644>>, <<43696, 43696>>, <<43698, 43700>>, <<43703, 43704>>,
    <<43710, 43711>>, <<43713, 43713>>, <<43741, 43741>>, <<43756, 43757>>,
    <<43763, 43764>>, <<43766, 43766>>, <<43867, 43871>>, <<43881, 43883>>,
    <<44005, 44005>>, <<44008, 44008>>, <<44013, 44013>>, <<64286, 64286>>,
    <<64434, 64450>>, <<65024, 65039>>, <<65043, 65043>>, <<65056, 65071>>,
    <<65106, 65106>>, <<65109, 65109>>, <<65279, 65279>>, <<65287, 65287>>,
    <<65294, 65294>>, <<65306, 65306>>, <<65342, 65342>>, <<65344, 65344>>,
    <<65392, 65392>>, <<65438, 65439>>, <<65507, 65507>>, <<65529, 65531>>,
    <<66045, 66045>>, <<66272, 66272>>, <<66422, 66426>>, <<67456, 67461>>,
    <<67463, 67504>>, <<67506, 67514>>, <<68097, 68099>>, <<68101, 68102>>,
    <<68108, 68111>>, <<68152, 68154>>, <<68159, 68159>>, <<68325, 68326>>,
    <<68900, 68903>>, <<69291, 69292>>, <<69446, 69456>>, <<69506, 69509>>,
    <<69633, 69633>>, <<69688, 69702>>, <<69744, 69744>>, <<69747, 69748>>,
    <<69759, 69761>>, <<69811, 69814>>, <<69817, 69818>>, <<69821, 69821>>,
    <<69826, 69826>>, <<69837, 69837>>, <<69888, 69890>>, <<69927, 69931>>,
    <<69933, 69940>>, <<70003, 70003>>, <<70016, 70017>>, <<70070, 70078>>,
    <<70089, 70092>>, <<70095, 70095>>, <<70191, 70193>>, <<70196, 70196>>,
    <<70198, 70199>>, <<70206, 70206>>, <<70367, 70367>>, <<70371, 70378>>,
    <<70400, 70401>>, <<70459, 70460>>, <<70464, 70464>>, <<70502, 70508>>,
    <<70512, 70516>>, <<70712, 70719>>, <<70722, 70724>>, <<70726, 70726>>,
    <<70750, 70750>>, <<70835, 70840>>, <<70842, 70842>>, <<70847, 70848>>,
    <<70850, 70851>>, <<71090, 71093>>, <<71100, 71101>>, <<71103, 71104>>,
    <<71132, 71133>>, <<71219, 71226>>, <<71229, 71229>>, <<71231, 71232>>,
    <<71339, 71339>>, <<71341, 71341>>, <<71344, 71349>>, <<71351, 71351>>,
    <<71453, 71455>>, <<71458, 71461>>, <<71463, 71467>>, <<71727, 71735>>,
    <<71737, 71738>>, <<71995, 71996>>, <<71998, 71998>>, <<72003, 72003>>,
    <<72148, 72151>>, <<72154, 72155>>, <<72160, 72160>>, <<72193, 72202>>,
    <<72243, 72248>>, <<72251, 72254>>, <<72263, 72263>>, <<72273, 72278>>,
    <<72281, 72283>>, <<72330, 72342>>, <<72344, 72345>>, <<72752, 72758>>,
    <<72760, 72765>>, <<72767, 72767>>, <<72850, 72871>>, <<72874, 72880>>,
    <<72882, 72883>>, <<72885, 72886>>, <<73009, 73014>>, <<73018, 73018>>,
    <<73020, 73021>>, <<73023, 73029>>, <<73031, 73031>>, <<73104, 73105>>,
    <<73109, 73109>>, <<73111, 73111>>, <<73459, 73460>>, <<78896, 78904>>,
    <<92912, 92916>>, <<92976, 92982>>, <<92992, 92995>>, <<94031, 94031>>,
    <<94095, 94111>>, <<94176, 94177>>, <<94179, 94180>>, <<110576, 110579>>,
    <<110581, 110587>>, <<110589, 110590>>, <<113821, 113822>>,
    <<113824, 113827>>, <<118528, 118573>>, <<118576, 118598>>,
    <<119143, 119145>>, <<119155, 119170>>, <<119173, 119179>>,
    <<119210, 119213>>, <<119362, 119364>>, <<121344, 121398>>,
    <<121403, 121452>>, <<121461, 121461>>, <<121476, 121476>>,
    <<121499, 121503>>, <<121505, 121519>>, <<122880, 122886>>,
    <<122888, 122904>>, <<122907, 122913>>, <<122915, 122916>>,
    <<122918, 122922>>, <<123184, 123197>>, <<123566, 123566>>,
    <<123628, 123631>>, <<125136, 125142>>, <<125252, 125259>>,
    <<127995, 127999>>, <<917505, 917505>>, <<917536, 917631>>,
    <<917760, 917999>> }

\* the code points Python takes for cased (Cased) and not for case-ignorable
CasedRanges ==
    {
    <<65, 90>>, <<97, 122>>, <<170, 170>>, <<181, 181>>, <<186, 186>>,
    <<192, 214>>, <<216, 246>>, <<248, 442>>, <<444, 447>>, <<452, 659>>,
    <<661, 687>>, <<880, 883>>, <<886, 887>>, <<891, 893>>, <<895, 895>>,
    <<902, 902>>, <<904, 906>>, <<908, 908>>, <<910, 929>>, <<931, 1013>>,
    <<1015, 1153>>, <<1162, 1327>>, <<1329, 1366>>, <<1376, 1416>>,
    <<4256, 4293>>, <<4295, 4295>>, <<4301, 4301>>, <<4304, 4346>>,
    <<4349, 4351>>, <<5024, 5109>>, <<5112, 5117>>, <<7296, 7304>>,
    <<7312, 7354>>, <<7357, 7359>>, <<7424, 7467>>, <<7531, 7543>>,
    <<7545, 7578>>, <<7680, 7957>>, <<7960, 7965>>, <<7968, 8005>>,
    <<8008, 8013>>, <<8016, 8023>>, <<8025, 8025>>, <<8027, 8027>>,
    <<8029, 8029>>, <<8031, 8061>>, <<8064, 8116>>, <<8118, 8124>>,
    <<8126, 8126>>, <<8130, 8132>>, <<8134, 8140>>, <<8144, 8147>>,
    <<8150, 8155>>, <<8160, 8172>>, <<8178, 8180>>, <<8182, 8188>>,
    <<8450, 8450>>, <<8455, 8455>>, <<8458, 8467>>, <<8469, 8469>>,
    <<8473, 8477>>, <<8484, 8484>>, <<8486, 8486>>, <<8488, 8488>>,
    <<8490, 8493>>, <<8495, 8500>>, <<8505, 8505>>, <<8508, 8511>>,
    <<8517, 8521>>, <<8526, 8526>>, <<8544, 8575>>, <<8579, 8580>>,
    <<9398, 9449>>, <<11264, 11387>>, <<11390, 11492>>, <<11499, 11502>>,
    <<11506, 11507>>, <<11520, 11557>>, <<11559, 11559>>, <<11565, 11565>>,
    <<42560, 42605>>, <<42624, 42651>>, <<42786, 42863>>, <<42865, 42887>>,
    <<42891, 42894>>, <<42896, 42954>>, <<42960, 42961>>, <<42963, 42963>>,
    <<42965, 42969>>, <<42997, 42998>>, <<43002, 43002>>, <<43824, 43866>>,
    <<43872, 43880>>, <<43888, 43967>>, <<64256, 64262>>, <<64275, 64279>>,
    <<65313, 65338>>, <<65345, 65370>>, <<66560, 66639>>, <<66736, 66771>>,
    <<66776, 66811>>, <<66928, 66938>>, <<66940, 66954>>, <<66956, 66962>>,
    <<66964, 66965>>, <<66967, 66977>>, <<66979, 66993>>, <<66995, 67001>>,
    <<67003, 67004>>, <<68736, 68786>>, <<68800, 68850>>, <<71840, 71903>>,
    <<93760, 93823>>, <<119808, 119892>>, <<119894, 119964>>,
    <<119966, 119967>>, <<119970, 119970>>, <<119973, 119974>>,
    <<119977, 119980>>, <<119982, 119993>>, <<119995, 119995>>,
    <<119997, 120003>>, <<120005, 120069>>, <<120071, 120074>>,
    <<120077, 120084>>, <<120086, 120092>>, <<120094, 120121>>,
    <<120123, 120126>>, <<120128, 120132>>, <<120134, 120134>>,
    <<120138, 120144>>, <<120146, 120485>>, <<120488, 120512>>,
    <<120514, 120538>>, <<120540, 120570>>, <<120572, 120596>>,
    <<120598, 120628>>, <<120630, 120654>>, <<120656, 120686>>,
    <<120688, 120712>>, <<120714, 120744>>, <<120746, 120770>>,
    <<120772, 120779>>, <<122624, 122633>>, <<122635, 122654>>,
    <<125184, 125251>>, <<127280, 127305>>, <<127312, 127337>>,
    <<127344, 127369>> }

Range(s) == {s[k] : k \in 1..Len(s)}

\* [a-zA-Z] of the regular expressions of html.parser
Letters == UpperLetters \cup LowerLetters

IsLetter(c) == c \in Letters

\* str.isspace(): \s of the regular expressions, and the characters
\* str.strip() and str.split() take for white space
Whitespace == SpaceChars \cup {chr(n) : n \in SpaceCodes}

IsSpace(c) == c \in Whitespace

\* \w of the regular expressions
IsWord(c) ==
    IF c \in Latin1Chars THEN c \in WordChars ELSE InRanges(Code(c), WordRanges)

\* str.lower() of one character that is not U+03A3: U+0130 becomes two
\* characters
LowerChar(c) ==
    LET Run(n, found) ==
            IF found = {} THEN <<c>> ELSE <<chr(n + (CHOOSE r \in found : TRUE)[4])>>
        Above(n) ==
            Run(n, {r \in LowerRuns :
                       r[1] <= n /\ n <= r[2] /\ (n - r[1]) % r[3] = 0})
    IN  IF c \in UpperChars THEN <<Latin1[Code(c) + 32]>>
        ELSE IF c \in Latin1Chars THEN <<c>>
        ELSE IF c = "U+0130" THEN <<"i", "U+0307">>
        ELSE Above(Code(c))

\* s[p:p+1]
At(s, p) == IF p \in 1..Len(s) THEN s[p] ELSE ""

\* s[a-1:b]
Sub(s, a, b) == IF a <= b THEN SubSeq(s, a, Min(b, Len(s))) ELSE <<>>

\* the first position at or after p whose character is not of the class
RunEnd(s, p, cls) ==
    IF p > Len(s) THEN p
    ELSE CHOOSE q \in p..(Len(s) + 1) :
             At(s, q) \notin cls /\ \A r \in p..(q - 1) : s[r] \in cls

\* the first position at or after p whose character is one of `ends`,
\* Len(s) + 1 if there is none
RunUntil(s, p, ends) ==
    IF p > Len(s) THEN p
    ELSE CHOOSE q \in p..(Len(s) + 1) :
             (q > Len(s) \/ s[q] \in ends) /\ \A r \in p..(q - 1) : s[r] \notin ends

\* the last position at or before p whose character is not of the class, 0
\* if there is none
RunStart(s, p, cls) ==
    CHOOSE q \in 0..p :
        At(s, q) \notin cls /\ \A r \in (q + 1)..p : s[r] \in cls

\* the last position before k (0 if none), the first after k (Len(s) + 1 if
\* none) whose character is not case-ignorable
CasedBefore(s, k) ==
    CHOOSE q \in 0..(k - 1) :
        /\ q = 0 \/ ~InRanges(Code(s[q]), CaseIgnorableRanges)
        /\ \A r \in (q + 1)..(k - 1) : InRanges(Code(s[r]), CaseIgnorableRanges)

CasedAfter(s, k) ==
    CHOOSE q \in (k + 1)..(Len(s) + 1) :
        /\ q > Len(s) \/ ~InRanges(Code(s[q]), CaseIgnorableRanges)
        /\ \A r \in (k + 1)..(q - 1) : InRanges(Code(s[r]), CaseIgnorableRanges)

\* str.lower() of the U+03A3 at k: U+03C2 at the end of a word, after a
\* cased letter and before none, else U+03C3
LowerSigma(s, k) ==
    LET Final(j, m) ==
            /\ j > 0
            /\ InRanges(Code(s[j]), CasedRanges)
            /\ m > Len(s) \/ ~InRanges(Code(s[m]), CasedRanges)
    IN  IF Final(CasedBefore(s, k), CasedAfter(s, k)) THEN <<"U+03C2">>
        ELSE <<"U+03C3">>

\* str.lower() of the characters s[a-1:b], as they stand in s
RECURSIVE LowerRange(_, _, _)
LowerRange(s, a, b) ==
    IF a > b THEN <<>>
    ELSE IF a = b
    THEN (IF s[a] = "U+03A3" THEN LowerSigma(s, a) ELSE LowerChar(s[a]))
    ELSE LowerRange(s, a, (a + b) \div 2) \o LowerRange(s, ((a + b) \div 2) + 1, b)

\* text.lower()
Lower(s) == LowerRange(s, 1, Len(s))

\* the end of the longest run of non-space characters starting at p (p - 1 if none)
NonSpaceRunEnd(s, p) == RunUntil(s, p, Whitespace) - 1

\* where a match of http\S+|www.\S+ starting at p ends (0: no match at p)
UrlMatchEnd(s, p) ==
    IF /\ p + 4 <= Len(s)
       /\ SubSeq(s, p, p + 3) = <<"h", "t", "t", "p">>
       /\ ~IsSpace(s[p + 4])
    THEN NonSpaceRunEnd(s, p + 4)
    ELSE IF /\ p + 4 <= Len(s)
            /\ SubSeq(s, p, p + 2) = <<"w", "w", "w">>
            /\ s[p + 3] # "\n"
            /\ ~IsSpace(s[p + 4])
    THEN NonSpaceRunEnd(s, p + 4)
    ELSE 0

\* re.sub(r'http\S+|www.\S+', '', text) from position p on: the text up to
\* the first match, and what follows the match
RECURSIVE RemoveUrlsFrom(_, _)
RemoveUrlsFrom(s, p) ==
    LET Url(q) ==
            IF q > Len(s) THEN Sub(s, p, Len(s))
            ELSE Sub(s, p, q - 1) \o RemoveUrlsFrom(s, UrlMatchEnd(s, q) + 1)
    IN  IF p > Len(s) THEN <<>>
        ELSE Url(CHOOSE q \in p..(Len(s) + 1) :
                     /\ q > Len(s) \/ UrlMatchEnd(s, q) > 0
                     /\ \A r \in p..(q - 1) : UrlMatchEnd(s, r) = 0)

remove_urls(text) == RemoveUrlsFrom(text, 1)

\* re.sub(r'[^\w\s]', '', text)
remove_punctuation(text) == SelectSeq(text, LAMBDA c : IsWord(c) \/ IsSpace(c))

\* str.lstrip()
LStrip(s) == Sub(s, RunEnd(s, 1, Whitespace), Len(s))

\* str.rstrip()
RStrip(s) == Sub(s, 1, RunStart(s, Len(s), Whitespace))

\* str.strip()
Strip(s) == RStrip(LStrip(s))

-----------------------------------------------------------------------------
(* remove_html_tags: BeautifulSoup(text, 'html.parser').get_text().  The  *)
(* tokenizer is HTMLParser of html.parser (Python 3.11) with               *)
(* convert_charrefs off, as BeautifulSoupHTMLParser runs it: feed() is     *)
(* goahead(0), close() is goahead(1).  A position is the index of the next *)
(* character; 0 stands for "no match" and for the -1 of the parse_*        *)
(* methods.  The tree builder is reduced to what get_text() depends on:    *)
(* the names of the open tags, the string being collected and the text of  *)
(* the strings get_text() returns.                                         *)

\* the str of a sequence of characters that stand for themselves
RECURSIVE Str(_)
Str(s) == IF s = <<>> THEN "" ELSE Head(s) \o Str(Tail(s))

\* the character classes of the regular expressions of html.parser:
\* [\s/], [-.:\w] of ASCII, [-.a-zA-Z0-9], [-_.a-zA-Z0-9], and what the
\* classes [^\t\n\r\f />\x00], [^\s/=>], [^>\s] leave out
SpaceOrSlash == Whitespace \cup {"/"}
EndTagNameChars == Letters \cup Digits \cup {"-", ".", ":", "_"}
EntityNameChars == Letters \cup Digits \cup {"-", "."}
DeclNameChars == Letters \cup Digits \cup {"-", "_", "."}
TagNameEnd == {"\t", "\n", "\r", "\f", " ", "/", ">", Nul}
AttrNameEnd == Whitespace \cup {"/", "=", ">"}
BareValueEnd == Whitespace \cup {">"}

\* the first position q at or after p with Match(q) > 0, Len(s) + 1 if
\* there is none
Search(s, p, Match(_)) ==
    IF p > Len(s) THEN p
    ELSE CHOOSE q \in p..(Len(s) + 1) :
             (q > Len(s) \/ Match(q) > 0) /\ \A r \in p..(q - 1) : Match(r) = 0

\* rawdata.find(c, p-1) + 1
Find(s, c, p) ==
    LET Found(q) == IF q > Len(s) THEN 0 ELSE q
    IN  Found(RunUntil(s, p, {c}))

\* (?:\s|/(?!>))* from p on
SkipSpaceSlash(s, p) ==
    IF p > Len(s) THEN p
    ELSE CHOOSE q \in p..(Len(s) + 1) :
             /\ ~(IsSpace(At(s, q)) \/ (At(s, q) = "/" /\ At(s, q + 1) # ">"))
             /\ \A r \in p..(q - 1) :
                   IsSpace(s[r]) \/ (s[r] = "/" /\ At(s, r + 1) # ">")

\* sys.int_info.default_max_str_digits: int() raises ValueError for a
\* decimal numeral of more digits
default_max_str_digits == 4300

\* html.unescape(s[a-1:b]) raises ValueError: the value holds "&#" and more
\* than default_max_str_digits decimal digits after it
UnescapeRaises(s, a, b) ==
    /\ b - a > default_max_str_digits
    /\ \E k \in a..(b - 1) :
          /\ s[k] = "&"
          /\ s[k + 1] = "#"
          /\ Min(RunEnd(s, k + 2, Digits), b + 1) - (k + 2) > default_max_str_digits

\* the value part of an attribute, \s*=+\s*('[^']*'|"[^"]*"|(?![\'"])[^>\s]*)\s*,
\* from q on: end, where it ends, 0 if it does not match; first and last,
\* the characters of the value without its quotes (first > last: none).
\* An opening quote that is never closed makes the expression back off: to
\* an empty value before the white space, or to a bare value that starts at
\* the last "=".
AttrValue(s, q) ==
    LET Value(end, first, last) == [end |-> end, first |-> first, last |-> last]
        Bare(b, e) == Value(RunEnd(s, e, Whitespace), b, e - 1)
        Quoted(a, e, b, close) ==
            IF close > 0 THEN Value(RunEnd(s, close + 1, Whitespace), b + 1, close - 1)
            ELSE IF b > e THEN Value(b, 1, 0)
            ELSE IF e - a >= 2 THEN Bare(e - 1, RunUntil(s, e - 1, BareValueEnd))
            ELSE Value(0, 1, 0)
        Given(a, e, b) ==
            IF e = a THEN Value(0, 1, 0)
            ELSE IF At(s, b) \in {"\"", "'"}
            THEN Quoted(a, e, b, Find(s, At(s, b), b + 1))
            ELSE Bare(b, RunUntil(s, b, BareValueEnd))
        Equals(a, e) == Given(a, e, RunEnd(s, e, Whitespace))
        Space(a) == Equals(a, RunEnd(s, a, {"="}))
    IN  Space(RunEnd(s, q, Whitespace))

\* one attribute of attrfind_tolerant from p on: end, where it ends, 0 if
\* none starts at p; raises, whether unescape raises on its value
Attr(s, p) ==
    LET Found(q, v) ==
            [end |-> SkipSpaceSlash(s, IF v.end > 0 THEN v.end ELSE q),
             raises |-> v.end > 0 /\ UnescapeRaises(s, v.first, v.last)]
        Name(q) == Found(q, AttrValue(s, q))
    IN  IF /\ At(s, p - 1) \in {"\"", "'", "/"} \/ IsSpace(At(s, p - 1))
           /\ At(s, p) # "" /\ ~IsSpace(At(s, p)) /\ At(s, p) \notin {"/", ">"}
        THEN Name(RunUntil(s, p + 1, AttrNameEnd))
        ELSE [end |-> 0, raises |-> FALSE]

\* where the attribute ends
AttrEnd(s, p) == Attr(s, p).end

\* the attributes from p on, none starting at or after limit: where they end
RECURSIVE AttrsEnd(_, _, _)
AttrsEnd(s, p, limit) ==
    LET More(e) == IF e > 0 THEN AttrsEnd(s, e, limit) ELSE p
    IN  IF p < limit THEN More(AttrEnd(s, p)) ELSE p

\* unescape raises on the value of one of these attributes
RECURSIVE AttrsRaise(_, _, _)
AttrsRaise(s, p, limit) ==
    LET More(a) == a.end > 0 /\ (a.raises \/ AttrsRaise(s, a.end, limit))
    IN  p < limit /\ More(Attr(s, p))

\* locatestarttagend_tolerant.match(rawdata, i).end() for a "<" at p
LocateStartTagEnd(s, p) ==
    LET name_end == RunUntil(s, p + 2, TagNameEnd)
        q == RunEnd(s, name_end, SpaceOrSlash)
    IN  RunEnd(s, AttrsEnd(s, q, Len(s) + 2), Whitespace)

\* check_for_whole_start_tag
check_for_whole_start_tag(s, p) ==
    LET Whole(j, next) ==
            IF next = ">" THEN j + 1
            ELSE IF next = "/" THEN (IF At(s, j + 1) = ">" THEN j + 2 ELSE 0)
            ELSE IF next = "" \/ IsLetter(next) \/ next = "=" THEN 0
            ELSE j
        Located(j) == Whole(j, At(s, j))
    IN  Located(LocateStartTagEnd(s, p))

\* empty_element_tags of HTMLTreeBuilder
VoidTags ==
    {Chars(name) : name \in
        {"area", "base", "br", "col", "embed", "hr", "img", "input", "keygen",
         "link", "menuitem", "meta", "param", "source", "track", "wbr",
         "basefont", "bgsound", "command", "frame", "image", "isindex",
         "nextid", "spacer"}}

\* preserve_whitespace_tags of HTMLTreeBuilder
PreserveWhitespaceTags == {Chars("pre"), Chars("textarea")}

\* the tags whose strings get_text() leaves out (string_containers)
StringContainers ==
    {Chars(name) : name \in {"rt", "rp", "style", "script", "template"}}

\* CDATA_CONTENT_ELEMENTS of HTMLParser
CDATA_CONTENT_ELEMENTS == {Chars("script"), Chars("style")}

\* ASCII_SPACES of BeautifulSoup
ASCII_SPACES == {" ", "\n", "\t", "\f", "\r"}

\* the parser and the soup before the first character: no open tag, no
\* string under way, no text, no exception raised.  The name of a tag is
\* the sequence of its characters.
NewSoup ==
    [stack |-> <<>>, closed |-> <<>>, pending |-> FALSE, data |-> <<>>,
     out |-> <<>>, cdata_elem |-> <<>>, raised |-> ""]

\* the string endData() makes of the collected data: white space of
\* ASCII_SPACES alone becomes one "\n" or " " outside pre and textarea
Collapsed(st, d) ==
    IF /\ \A k \in 1..Len(st.stack) : st.stack[k] \notin PreserveWhitespaceTags
       /\ \A k \in 1..Len(d) : d[k] \in ASCII_SPACES
    THEN (IF \E k \in 1..Len(d) : d[k] = "\n" THEN <<"\n">> ELSE <<" ">>)
    ELSE d

\* endData(containerClass): get_text() keeps a NavigableString outside the
\* string containers ("text") and a CData ("cdata"), no other string
endData(st, cls) ==
    IF ~st.pending THEN st
    ELSE LET kept ==
                 \/ cls = "cdata"
                 \/ /\ cls = "text"
                    /\ \A k \in 1..Len(st.stack) : st.stack[k] \notin StringContainers
         IN  [st EXCEPT !.pending = FALSE,
                        !.data = <<>>,
                        !.out = IF kept THEN @ \o Collapsed(st, st.data) ELSE @]

handle_data(st, d) == [st EXCEPT !.pending = TRUE, !.data = @ \o d]

\* handle_comment, handle_decl, handle_pi, unknown_decl: a string of its own
HandleOther(st, d, cls) == endData(handle_data(endData(st, "text"), d), cls)

\* the index of the innermost open tag of that name, 0 if none is open
LastIndex(stack, name) ==
    IF \E k \in 1..Len(stack) : stack[k] = name
    THEN CHOOSE k \in 1..Len(stack) :
             stack[k] = name /\ \A m \in (k + 1)..Len(stack) : stack[m] # name
    ELSE 0

\* BeautifulSoup.handle_endtag: endData(), _popToTag(name)
SoupEndTag(st, name) ==
    LET Pop(ended, k) ==
            IF k > 0 THEN [ended EXCEPT !.stack = SubSeq(@, 1, k - 1)] ELSE ended
        Ended(ended) == Pop(ended, LastIndex(ended.stack, name))
    IN  Ended(endData(st, "text"))

\* BeautifulSoup.handle_starttag: endData(), pushTag(tag)
SoupStartTag(st, name) ==
    [endData(st, "text") EXCEPT !.stack = Append(@, name)]

\* list.remove(x)
RemoveFirst(seq, x) ==
    LET k == CHOOSE j \in 1..Len(seq) : seq[j] = x /\ \A m \in 1..(j - 1) : seq[m] # x
    IN  SubSeq(seq, 1, k - 1) \o SubSeq(seq, k + 1, Len(seq))

\* BeautifulSoupHTMLParser.handle_endtag
handle_endtag(st, name) ==
    IF \E k \in 1..Len(st.closed) : st.closed[k] = name
    THEN [st EXCEPT !.closed = RemoveFirst(@, name)]
    ELSE SoupEndTag(st, name)

\* BeautifulSoupHTMLParser.handle_starttag: a void element is closed at once
handle_starttag(st, name) ==
    LET Started(started) ==
            IF name \in VoidTags
            THEN [SoupEndTag(started, name) EXCEPT !.closed = Append(@, name)]
            ELSE started
    IN  Started(SoupStartTag(st, name))

\* BeautifulSoupHTMLParser.handle_startendtag
handle_startendtag(st, name) == handle_endtag(SoupStartTag(st, name), name)

\* windows-1252 of the bytes 128..159, an undefined byte standing for the
\* character of its own code point
Windows1252 ==
    <<
    "U+20AC", "U+0081", "U+201A", "U+0192", "U+201E", "U+2026", "U+2020",
    "U+2021", "U+02C6", "U+2030", "U+0160", "U+2039", "U+0152", "U+008D",
    "U+017D", "U+008F", "U+0090", "U+2018", "U+2019", "U+201C", "U+201D",
    "U+2022", "U+2013", "U+2014", "U+02DC", "U+2122", "U+0161", "U+203A",
    "U+0153", "U+009D", "U+017E", "U+0178" >>

\* EntitySubstitution.HTML_ENTITY_TO_CHARACTER of bs4.dammit, the names of
\* html.entities.html5, as pairs <<name, text>>
HTML_ENTITY_TO_CHARACTER ==
    {
    <<"AElig", <<"Æ">>>>, <<"AMP", <<"&">>>>, <<"Aacute", <<"Á">>>>,
    <<"Abreve", <<"U+0102">>>>, <<"Acirc", <<"Â">>>>,
    <<"Acy", <<"U+0410">>>>, <<"Afr", <<"U+1D504">>>>, <<"Agrave", <<"À">>>>,
    <<"Alpha", <<"U+0391">>>>, <<"Amacr", <<"U+0100">>>>,
    <<"And", <<"U+2A53">>>>, <<"Aogon", <<"U+0104">>>>,
    <<"Aopf", <<"U+1D538">>>>, <<"ApplyFunction", <<"U+2061">>>>,
    <<"Aring", <<"Å">>>>, <<"Ascr", <<"U+1D49C">>>>,
    <<"Assign", <<"U+2254">>>>, <<"Atilde", <<"Ã">>>>, <<"Auml", <<"Ä">>>>,
    <<"Backslash", <<"U+2216">>>>, <<"Barv", <<"U+2AE7">>>>,
    <<"Barwed", <<"U+2306">>>>, <<"Bcy", <<"U+0411">>>>,
    <<"Because", <<"U+2235">>>>, <<"Bernoullis", <<"U+212C">>>>,
    <<"Beta", <<"U+0392">>>>, <<"Bfr", <<"U+1D505">>>>,
    <<"Bopf", <<"U+1D539">>>>, <<"Breve", <<"U+02D8">>>>,
    <<"Bscr", <<"U+212C">>>>, <<"Bumpeq", <<"U+224E">>>>,
    <<"CHcy", <<"U+0427">>>>, <<"COPY", <<"©">>>>,
    <<"Cacute", <<"U+0106">>>>, <<"Cap", <<"U+22D2">>>>,
    <<"CapitalDifferentialD", <<"U+2145">>>>, <<"Cayleys", <<"U+212D">>>>,
    <<"Ccaron", <<"U+010C">>>>, <<"Ccedil", <<"Ç">>>>,
    <<"Ccirc", <<"U+0108">>>>, <<"Cconint", <<"U+2230">>>>,
    <<"Cdot", <<"U+010A">>>>, <<"Cedilla", <<"¸">>>>,
    <<"CenterDot", <<"·">>>>, <<"Cfr", <<"U+212D">>>>,
    <<"Chi", <<"U+03A7">>>>, <<"CircleDot", <<"U+2299">>>>,
    <<"CircleMinus", <<"U+2296">>>>, <<"CirclePlus", <<"U+2295">>>>,
    <<"CircleTimes", <<"U+2297">>>>,
    <<"ClockwiseContourIntegral", <<"U+2232">>>>,
    <<"CloseCurlyDoubleQuote", <<"U+201D">>>>,
    <<"CloseCurlyQuote", <<"U+2019">>>>, <<"Colon", <<"U+2237">>>>,
    <<"Colone", <<"U+2A74">>>>, <<"Congruent", <<"U+2261">>>>,
    <<"Conint", <<"U+222F">>>>, <<"ContourIntegral", <<"U+222E">>>>,
    <<"Copf", <<"U+2102">>>>, <<"Coproduct", <<"U+2210">>>>,
    <<"CounterClockwiseContourIntegral", <<"U+2233">>>>,
    <<"Cross", <<"U+2A2F">>>>, <<"Cscr", <<"U+1D49E">>>>,
    <<"Cup", <<"U+22D3">>>>, <<"CupCap", <<"U+224D">>>>,
    <<"DD", <<"U+2145">>>>, <<"DDotrahd", <<"U+2911">>>>,
    <<"DJcy", <<"U+0402">>>>, <<"DScy", <<"U+0405">>>>,
    <<"DZcy", <<"U+040F">>>>, <<"Dagger", <<"U+2021">>>>,
    <<"Darr", <<"U+21A1">>>>, <<"Dashv", <<"U+2AE4">>>>,
    <<"Dcaron", <<"U+010E">>>>, <<"Dcy", <<"U+0414">>>>,
    <<"Del", <<"U+2207">>>>, <<"Delta", <<"U+0394">>>>,
    <<"Dfr", <<"U+1D507">>>>, <<"DiacriticalAcute", <<"´">>>>,
    <<"DiacriticalDot", <<"U+02D9">>>>,
    <<"DiacriticalDoubleAcute", <<"U+02DD">>>>,
    <<"DiacriticalGrave", <<"U+0060">>>>,
    <<"DiacriticalTilde", <<"U+02DC">>>>, <<"Diamond", <<"U+22C4">>>>,
    <<"DifferentialD", <<"U+2146">>>>, <<"Dopf", <<"U+1D53B">>>>,
    <<"Dot", <<"¨">>>>, <<"DotDot", <<"U+20DC">>>>,
    <<"DotEqual", <<"U+2250">>>>, <<"DoubleContourIntegral", <<"U+222F">>>>,
    <<"DoubleDot", <<"¨">>>>, <<"DoubleDownArrow", <<"U+21D3">>>>,
    <<"DoubleLeftArrow", <<"U+21D0">>>>,
    <<"DoubleLeftRightArrow", <<"U+21D4">>>>,
    <<"DoubleLeftTee", <<"U+2AE4">>>>,
    <<"DoubleLongLeftArrow", <<"U+27F8">>>>,
    <<"DoubleLongLeftRightArrow", <<"U+27FA">>>>,
    <<"DoubleLongRightArrow", <<"U+27F9">>>>,
    <<"DoubleRightArrow", <<"U+21D2">>>>, <<"DoubleRightTee", <<"U+22A8">>>>,
    <<"DoubleUpArrow", <<"U+21D1">>>>, <<"DoubleUpDownArrow", <<"U+21D5">>>>,
    <<"DoubleVerticalBar", <<"U+2225">>>>, <<"DownArrow", <<"U+2193">>>>,
    <<"DownArrowBar", <<"U+2913">>>>, <<"DownArrowUpArrow", <<"U+21F5">>>>,
    <<"DownBreve", <<"U+0311">>>>, <<"DownLeftRightVector", <<"U+2950">>>>,
    <<"DownLeftTeeVector", <<"U+295E">>>>,
    <<"DownLeftVector", <<"U+21BD">>>>,
    <<"DownLeftVectorBar", <<"U+2956">>>>,
    <<"DownRightTeeVector", <<"U+295F">>>>,
    <<"DownRightVector", <<"U+21C1">>>>,
    <<"DownRightVectorBar", <<"U+2957">>>>, <<"DownTee", <<"U+22A4">>>>,
    <<"DownTeeArrow", <<"U+21A7">>>>, <<"Downarrow", <<"U+21D3">>>>,
    <<"Dscr", <<"U+1D49F">>>>, <<"Dstrok", <<"U+0110">>>>,
    <<"ENG", <<"U+014A">>>>, <<"ETH", <<"Ð">>>>, <<"Eacute", <<"É">>>>,
    <<"Ecaron", <<"U+011A">>>>, <<"Ecirc", <<"Ê">>>>,
    <<"Ecy", <<"U+042D">>>>, <<"Edot", <<"U+0116">>>>,
    <<"Efr", <<"U+1D508">>>>, <<"Egrave", <<"È">>>>,
    <<"Element", <<"U+2208">>>>, <<"Emacr", <<"U+0112">>>>,
    <<"EmptySmallSquare", <<"U+25FB">>>>,
    <<"EmptyVerySmallSquare", <<"U+25AB">>>>, <<"Eogon", <<"U+0118">>>>,
    <<"Eopf", <<"U+1D53C">>>>, <<"Epsilon", <<"U+0395">>>>,
    <<"Equal", <<"U+2A75">>>>, <<"EqualTilde", <<"U+2242">>>>,
    <<"Equilibrium", <<"U+21CC">>>>, <<"Escr", <<"U+2130">>>>,
    <<"Esim", <<"U+2A73">>>>, <<"Eta", <<"U+0397">>>>, <<"Euml", <<"Ë">>>>,
    <<"Exists", <<"U+2203">>>>, <<"ExponentialE", <<"U+2147">>>>,
    <<"Fcy", <<"U+0424">>>>, <<"Ffr", <<"U+1D509">>>>,
    <<"FilledSmallSquare", <<"U+25FC">>>>,
    <<"FilledVerySmallSquare", <<"U+25AA">>>>, <<"Fopf", <<"U+1D53D">>>>,
    <<"ForAll", <<"U+2200">>>>, <<"Fouriertrf", <<"U+2131">>>>,
    <<"Fscr", <<"U+2131">>>>, <<"GJcy", <<"U+0403">>>>, <<"GT", <<">">>>>,
    <<"Gamma", <<"U+0393">>>>, <<"Gammad", <<"U+03DC">>>>,
    <<"Gbreve", <<"U+011E">>>>, <<"Gcedil", <<"U+0122">>>>,
    <<"Gcirc", <<"U+011C">>>>, <<"Gcy", <<"U+0413">>>>,
    <<"Gdot", <<"U+0120">>>>, <<"Gfr", <<"U+1D50A">>>>,
    <<"Gg", <<"U+22D9">>>>, <<"Gopf", <<"U+1D53E">>>>,
    <<"GreaterEqual", <<"U+2265">>>>, <<"GreaterEqualLess", <<"U+22DB">>>>,
    <<"GreaterFullEqual", <<"U+2267">>>>, <<"GreaterGreater", <<"U+2AA2">>>>,
    <<"GreaterLess", <<"U+2277">>>>, <<"GreaterSlantEqual", <<"U+2A7E">>>>,
    <<"GreaterTilde", <<"U+2273">>>>, <<"Gscr", <<"U+1D4A2">>>>,
    <<"Gt", <<"U+226B">>>>, <<"HARDcy", <<"U+042A">>>>,
    <<"Hacek", <<"U+02C7">>>>, <<"Hat", <<"^">>>>, <<"Hcirc", <<"U+0124">>>>,
    <<"Hfr", <<"U+210C">>>>, <<"HilbertSpace", <<"U+210B">>>>,
    <<"Hopf", <<"U+210D">>>>, <<"HorizontalLine", <<"U+2500">>>>,
    <<"Hscr", <<"U+210B">>>>, <<"Hstrok", <<"U+0126">>>>,
    <<"HumpDownHump", <<"U+224E">>>>, <<"HumpEqual", <<"U+224F">>>>,
    <<"IEcy", <<"U+0415">>>>, <<"IJlig", <<"U+0132">>>>,
    <<"IOcy", <<"U+0401">>>>, <<"Iacute", <<"Í">>>>, <<"Icirc", <<"Î">>>>,
    <<"Icy", <<"U+0418">>>>, <<"Idot", <<"U+0130">>>>,
    <<"Ifr", <<"U+2111">>>>, <<"Igrave", <<"Ì">>>>, <<"Im", <<"U+2111">>>>,
    <<"Imacr", <<"U+012A">>>>, <<"ImaginaryI", <<"U+2148">>>>,
    <<"Implies", <<"U+21D2">>>>, <<"Int", <<"U+222C">>>>,
    <<"Integral", <<"U+222B">>>>, <<"Intersection", <<"U+22C2">>>>,
    <<"InvisibleComma", <<"U+2063">>>>, <<"InvisibleTimes", <<"U+2062">>>>,
    <<"Iogon", <<"U+012E">>>>, <<"Iopf", <<"U+1D540">>>>,
    <<"Iota", <<"U+0399">>>>, <<"Iscr", <<"U+2110">>>>,
    <<"Itilde", <<"U+0128">>>>, <<"Iukcy", <<"U+0406">>>>,
    <<"Iuml", <<"Ï">>>>, <<"Jcirc", <<"U+0134">>>>, <<"Jcy", <<"U+0419">>>>,
    <<"Jfr", <<"U+1D50D">>>>, <<"Jopf", <<"U+1D541">>>>,
    <<"Jscr", <<"U+1D4A5">>>>, <<"Jsercy", <<"U+0408">>>>,
    <<"Jukcy", <<"U+0404">>>>, <<"KHcy", <<"U+0425">>>>,
    <<"KJcy", <<"U+040C">>>>, <<"Kappa", <<"U+039A">>>>,
    <<"Kcedil", <<"U+0136">>>>, <<"Kcy", <<"U+041A">>>>,
    <<"Kfr", <<"U+1D50E">>>>, <<"Kopf", <<"U+1D542">>>>,
    <<"Kscr", <<"U+1D4A6">>>>, <<"LJcy", <<"U+0409">>>>, <<"LT", <<"<">>>>,
    <<"Lacute", <<"U+0139">>>>, <<"Lambda", <<"U+039B">>>>,
    <<"Lang", <<"U+27EA">>>>, <<"Laplacetrf", <<"U+2112">>>>,
    <<"Larr", <<"U+219E">>>>, <<"Lcaron", <<"U+013D">>>>,
    <<"Lcedil", <<"U+013B">>>>, <<"Lcy", <<"U+041B">>>>,
    <<"LeftAngleBracket", <<"U+27E8">>>>, <<"LeftArrow", <<"U+2190">>>>,
    <<"LeftArrowBar", <<"U+21E4">>>>,
    <<"LeftArrowRightArrow", <<"U+21C6">>>>, <<"LeftCeiling", <<"U+2308">>>>,
    <<"LeftDoubleBracket", <<"U+27E6">>>>,
    <<"LeftDownTeeVector", <<"U+2961">>>>,
    <<"LeftDownVector", <<"U+21C3">>>>,
    <<"LeftDownVectorBar", <<"U+2959">>>>, <<"LeftFloor", <<"U+230A">>>>,
    <<"LeftRightArrow", <<"U+2194">>>>, <<"LeftRightVector", <<"U+294E">>>>,
    <<"LeftTee", <<"U+22A3">>>>, <<"LeftTeeArrow", <<"U+21A4">>>>,
    <<"LeftTeeVector", <<"U+295A">>>>, <<"LeftTriangle", <<"U+22B2">>>>,
    <<"LeftTriangleBar", <<"U+29CF">>>>,
    <<"LeftTriangleEqual", <<"U+22B4">>>>,
    <<"LeftUpDownVector", <<"U+2951">>>>,
    <<"LeftUpTeeVector", <<"U+2960">>>>, <<"LeftUpVector", <<"U+21BF">>>>,
    <<"LeftUpVectorBar", <<"U+2958">>>>, <<"LeftVector", <<"U+21BC">>>>,
    <<"LeftVectorBar", <<"U+2952">>>>, <<"Leftarrow", <<"U+21D0">>>>,
    <<"Leftrightarrow", <<"U+21D4">>>>, <<"LessEqualGreater", <<"U+22DA">>>>,
    <<"LessFullEqual", <<"U+2266">>>>, <<"LessGreater", <<"U+2276">>>>,
    <<"LessLess", <<"U+2AA1">>>>, <<"LessSlantEqual", <<"U+2A7D">>>>,
    <<"LessTilde", <<"U+2272">>>>, <<"Lfr", <<"U+1D50F">>>>,
    <<"Ll", <<"U+22D8">>>>, <<"Lleftarrow", <<"U+21DA">>>>,
    <<"Lmidot", <<"U+013F">>>>, <<"LongLeftArrow", <<"U+27F5">>>>,
    <<"LongLeftRightArrow", <<"U+27F7">>>>,
    <<"LongRightArrow", <<"U+27F6">>>>, <<"Longleftarrow", <<"U+27F8">>>>,
    <<"Longleftrightarrow", <<"U+27FA">>>>,
    <<"Longrightarrow", <<"U+27F9">>>>, <<"Lopf", <<"U+1D543">>>>,
    <<"LowerLeftArrow", <<"U+2199">>>>, <<"LowerRightArrow", <<"U+2198">>>>,
    <<"Lscr", <<"U+2112">>>>, <<"Lsh", <<"U+21B0">>>>,
    <<"Lstrok", <<"U+0141">>>>, <<"Lt", <<"U+226A">>>>,
    <<"Map", <<"U+2905">>>>, <<"Mcy", <<"U+041C">>>>,
    <<"MediumSpace", <<"U+205F">>>>, <<"Mellintrf", <<"U+2133">>>>,
    <<"Mfr", <<"U+1D510">>>>, <<"MinusPlus", <<"U+2213">>>>,
    <<"Mopf", <<"U+1D544">>>>, <<"Mscr", <<"U+2133">>>>,
    <<"Mu", <<"U+039C">>>>, <<"NJcy", <<"U+040A">>>>,
    <<"Nacute", <<"U+0143">>>>, <<"Ncaron", <<"U+0147">>>>,
    <<"Ncedil", <<"U+0145">>>>, <<"Ncy", <<"U+041D">>>>,
    <<"NegativeMediumSpace", <<"U+200B">>>>,
    <<"NegativeThickSpace", <<"U+200B">>>>,
    <<"NegativeThinSpace", <<"U+200B">>>>,
    <<"NegativeVeryThinSpace", <<"U+200B">>>>,
    <<"NestedGreaterGreater", <<"U+226B">>>>,
    <<"NestedLessLess", <<"U+226A">>>>, <<"NewLine", <<"\n">>>>,
    <<"Nfr", <<"U+1D511">>>>, <<"NoBreak", <<"U+2060">>>>,
    <<"NonBreakingSpace", <<"U+00A0">>>>, <<"Nopf", <<"U+2115">>>>,
    <<"Not", <<"U+2AEC">>>>, <<"NotCongruent", <<"U+2262">>>>,
    <<"NotCupCap", <<"U+226D">>>>, <<"NotDoubleVerticalBar", <<"U+2226">>>>,
    <<"NotElement", <<"U+2209">>>>, <<"NotEqual", <<"U+2260">>>>,
    <<"NotEqualTilde", <<"U+2242", "U+0338">>>>,
    <<"NotExists", <<"U+2204">>>>, <<"NotGreater", <<"U+226F">>>>,
    <<"NotGreaterEqual", <<"U+2271">>>>,
    <<"NotGreaterFullEqual", <<"U+2267", "U+0338">>>>,
    <<"NotGreaterGreater", <<"U+226B", "U+0338">>>>,
    <<"NotGreaterLess", <<"U+2279">>>>,
    <<"NotGreaterSlantEqual", <<"U+2A7E", "U+0338">>>>,
    <<"NotGreaterTilde", <<"U+2275">>>>,
    <<"NotHumpDownHump", <<"U+224E", "U+0338">>>>,
    <<"NotHumpEqual", <<"U+224F", "U+0338">>>>,
    <<"NotLeftTriangle", <<"U+22EA">>>>,
    <<"NotLeftTriangleBar", <<"U+29CF", "U+0338">>>>,
    <<"NotLeftTriangleEqual", <<"U+22EC">>>>, <<"NotLess", <<"U+226E">>>>,
    <<"NotLessEqual", <<"U+2270">>>>, <<"NotLessGreater", <<"U+2278">>>>,
    <<"NotLessLess", <<"U+226A", "U+0338">>>>,
    <<"NotLessSlantEqual", <<"U+2A7D", "U+0338">>>>,
    <<"NotLessTilde", <<"U+2274">>>>,
    <<"NotNestedGreaterGreater", <<"U+2AA2", "U+0338">>>>,
    <<"NotNestedLessLess", <<"U+2AA1", "U+0338">>>>,
    <<"NotPrecedes", <<"U+2280">>>>,
    <<"NotPrecedesEqual", <<"U+2AAF", "U+0338">>>>,
    <<"NotPrecedesSlantEqual", <<"U+22E0">>>>,
    <<"NotReverseElement", <<"U+220C">>>>,
    <<"NotRightTriangle", <<"U+22EB">>>>,
    <<"NotRightTriangleBar", <<"U+29D0", "U+0338">>>>,
    <<"NotRightTriangleEqual", <<"U+22ED">>>>,
    <<"NotSquareSubset", <<"U+228F", "U+0338">>>>,
    <<"NotSquareSubsetEqual", <<"U+22E2">>>>,
    <<"NotSquareSuperset", <<"U+2290", "U+0338">>>>,
    <<"NotSquareSupersetEqual", <<"U+22E3">>>>,
    <<"NotSubset", <<"U+2282", "U+20D2">>>>,
    <<"NotSubsetEqual", <<"U+2288">>>>, <<"NotSucceeds", <<"U+2281">>>>,
    <<"NotSucceedsEqual", <<"U+2AB0", "U+0338">>>>,
    <<"NotSucceedsSlantEqual", <<"U+22E1">>>>,
    <<"NotSucceedsTilde", <<"U+227F", "U+0338">>>>,
    <<"NotSuperset", <<"U+2283", "U+20D2">>>>,
    <<"NotSupersetEqual", <<"U+2289">>>>, <<"NotTilde", <<"U+2241">>>>,
    <<"NotTildeEqual", <<"U+2244">>>>, <<"NotTildeFullEqual", <<"U+2247">>>>,
    <<"NotTildeTilde", <<"U+2249">>>>, <<"NotVerticalBar", <<"U+2224">>>>,
    <<"Nscr", <<"U+1D4A9">>>>, <<"Ntilde", <<"Ñ">>>>, <<"Nu", <<"U+039D">>>>,
    <<"OElig", <<"U+0152">>>>, <<"Oacute", <<"Ó">>>>, <<"Ocirc", <<"Ô">>>>,
    <<"Ocy", <<"U+041E">>>>, <<"Odblac", <<"U+0150">>>>,
    <<"Ofr", <<"U+1D512">>>>, <<"Ograve", <<"Ò">>>>,
    <<"Omacr", <<"U+014C">>>>, <<"Omega", <<"U+03A9">>>>,
    <<"Omicron", <<"U+039F">>>>, <<"Oopf", <<"U+1D546">>>>,
    <<"OpenCurlyDoubleQuote", <<"U+201C">>>>,
    <<"OpenCurlyQuote", <<"U+2018">>>>, <<"Or", <<"U+2A54">>>>,
    <<"Oscr", <<"U+1D4AA">>>>, <<"Oslash", <<"Ø">>>>, <<"Otilde", <<"Õ">>>>,
    <<"Otimes", <<"U+2A37">>>>, <<"Ouml", <<"Ö">>>>,
    <<"OverBar", <<"U+203E">>>>, <<"OverBrace", <<"U+23DE">>>>,
    <<"OverBracket", <<"U+23B4">>>>, <<"OverParenthesis", <<"U+23DC">>>>,
    <<"PartialD", <<"U+2202">>>>, <<"Pcy", <<"U+041F">>>>,
    <<"Pfr", <<"U+1D513">>>>, <<"Phi", <<"U+03A6">>>>,
    <<"Pi", <<"U+03A0">>>>, <<"PlusMinus", <<"±">>>>,
    <<"Poincareplane", <<"U+210C">>>>, <<"Popf", <<"U+2119">>>>,
    <<"Pr", <<"U+2ABB">>>>, <<"Precedes", <<"U+227A">>>>,
    <<"PrecedesEqual", <<"U+2AAF">>>>,
    <<"PrecedesSlantEqual", <<"U+227C">>>>,
    <<"PrecedesTilde", <<"U+227E">>>>, <<"Prime", <<"U+2033">>>>,
    <<"Product", <<"U+220F">>>>, <<"Proportion", <<"U+2237">>>>,
    <<"Proportional", <<"U+221D">>>>, <<"Pscr", <<"U+1D4AB">>>>,
    <<"Psi", <<"U+03A8">>>>, <<"QUOT", <<"\"">>>>, <<"Qfr", <<"U+1D514">>>>,
    <<"Qopf", <<"U+211A">>>>, <<"Qscr", <<"U+1D4AC">>>>,
    <<"RBarr", <<"U+2910">>>>, <<"REG", <<"®">>>>,
    <<"Racute", <<"U+0154">>>>, <<"Rang", <<"U+27EB">>>>,
    <<"Rarr", <<"U+21A0">>>>, <<"Rarrtl", <<"U+2916">>>>,
    <<"Rcaron", <<"U+0158">>>>, <<"Rcedil", <<"U+0156">>>>,
    <<"Rcy", <<"U+0420">>>>, <<"Re", <<"U+211C">>>>,
    <<"ReverseElement", <<"U+220B">>>>,
    <<"ReverseEquilibrium", <<"U+21CB">>>>,
    <<"ReverseUpEquilibrium", <<"U+296F">>>>, <<"Rfr", <<"U+211C">>>>,
    <<"Rho", <<"U+03A1">>>>, <<"RightAngleBracket", <<"U+27E9">>>>,
    <<"RightArrow", <<"U+2192">>>>, <<"RightArrowBar", <<"U+21E5">>>>,
    <<"RightArrowLeftArrow", <<"U+21C4">>>>,
    <<"RightCeiling", <<"U+2309">>>>, <<"RightDoubleBracket", <<"U+27E7">>>>,
    <<"RightDownTeeVector", <<"U+295D">>>>,
    <<"RightDownVector", <<"U+21C2">>>>,
    <<"RightDownVectorBar", <<"U+2955">>>>, <<"RightFloor", <<"U+230B">>>>,
    <<"RightTee", <<"U+22A2">>>>, <<"RightTeeArrow", <<"U+21A6">>>>,
    <<"RightTeeVector", <<"U+295B">>>>, <<"RightTriangle", <<"U+22B3">>>>,
    <<"RightTriangleBar", <<"U+29D0">>>>,
    <<"RightTriangleEqual", <<"U+22B5">>>>,
    <<"RightUpDownVector", <<"U+294F">>>>,
    <<"RightUpTeeVector", <<"U+295C">>>>, <<"RightUpVector", <<"U+21BE">>>>,
    <<"RightUpVectorBar", <<"U+2954">>>>, <<"RightVector", <<"U+21C0">>>>,
    <<"RightVectorBar", <<"U+2953">>>>, <<"Rightarrow", <<"U+21D2">>>>,
    <<"Ropf", <<"U+211D">>>>, <<"RoundImplies", <<"U+2970">>>>,
    <<"Rrightarrow", <<"U+21DB">>>>, <<"Rscr", <<"U+211B">>>>,
    <<"Rsh", <<"U+21B1">>>>, <<"RuleDelayed", <<"U+29F4">>>>,
    <<"SHCHcy", <<"U+0429">>>>, <<"SHcy", <<"U+0428">>>>,
    <<"SOFTcy", <<"U+042C">>>>, <<"Sacute", <<"U+015A">>>>,
    <<"Sc", <<"U+2ABC">>>>, <<"Scaron", <<"U+0160">>>>,
    <<"Scedil", <<"U+015E">>>>, <<"Scirc", <<"U+015C">>>>,
    <<"Scy", <<"U+0421">>>>, <<"Sfr", <<"U+1D516">>>>,
    <<"ShortDownArrow", <<"U+2193">>>>, <<"ShortLeftArrow", <<"U+2190">>>>,
    <<"ShortRightArrow", <<"U+2192">>>>, <<"ShortUpArrow", <<"U+2191">>>>,
    <<"Sigma", <<"U+03A3">>>>, <<"SmallCircle", <<"U+2218">>>>,
    <<"Sopf", <<"U+1D54A">>>>, <<"Sqrt", <<"U+221A">>>>,
    <<"Square", <<"U+25A1">>>>, <<"SquareIntersection", <<"U+2293">>>>,
    <<"SquareSubset", <<"U+228F">>>>, <<"SquareSubsetEqual", <<"U+2291">>>>,
    <<"SquareSuperset", <<"U+2290">>>>,
    <<"SquareSupersetEqual", <<"U+2292">>>>, <<"SquareUnion", <<"U+2294">>>>,
    <<"Sscr", <<"U+1D4AE">>>>, <<"Star", <<"U+22C6">>>>,
    <<"Sub", <<"U+22D0">>>>, <<"Subset", <<"U+22D0">>>>,
    <<"SubsetEqual", <<"U+2286">>>>, <<"Succeeds", <<"U+227B">>>>,
    <<"SucceedsEqual", <<"U+2AB0">>>>,
    <<"SucceedsSlantEqual", <<"U+227D">>>>,
    <<"SucceedsTilde", <<"U+227F">>>>, <<"SuchThat", <<"U+220B">>>>,
    <<"Sum", <<"U+2211">>>>, <<"Sup", <<"U+22D1">>>>,
    <<"Superset", <<"U+2283">>>>, <<"SupersetEqual", <<"U+2287">>>>,
    <<"Supset", <<"U+22D1">>>>, <<"THORN", <<"Þ">>>>,
    <<"TRADE", <<"U+2122">>>>, <<"TSHcy", <<"U+040B">>>>,
    <<"TScy", <<"U+0426">>>>, <<"Tab", <<"\t">>>>, <<"Tau", <<"U+03A4">>>>,
    <<"Tcaron", <<"U+0164">>>>, <<"Tcedil", <<"U+0162">>>>,
    <<"Tcy", <<"U+0422">>>>, <<"Tfr", <<"U+1D517">>>>,
    <<"Therefore", <<"U+2234">>>>, <<"Theta", <<"U+0398">>>>,
    <<"ThickSpace", <<"U+205F", "U+200A">>>>, <<"ThinSpace", <<"U+2009">>>>,
    <<"Tilde", <<"U+223C">>>>, <<"TildeEqual", <<"U+2243">>>>,
    <<"TildeFullEqual", <<"U+2245">>>>, <<"TildeTilde", <<"U+2248">>>>,
    <<"Topf", <<"U+1D54B">>>>, <<"TripleDot", <<"U+20DB">>>>,
    <<"Tscr", <<"U+1D4AF">>>>, <<"Tstrok", <<"U+0166">>>>,
    <<"Uacute", <<"Ú">>>>, <<"Uarr", <<"U+219F">>>>,
    <<"Uarrocir", <<"U+2949">>>>, <<"Ubrcy", <<"U+040E">>>>,
    <<"Ubreve", <<"U+016C">>>>, <<"Ucirc", <<"Û">>>>,
    <<"Ucy", <<"U+0423">>>>, <<"Udblac", <<"U+0170">>>>,
    <<"Ufr", <<"U+1D518">>>>, <<"Ugrave", <<"Ù">>>>,
    <<"Umacr", <<"U+016A">>>>, <<"UnderBar", <<"_">>>>,
    <<"UnderBrace", <<"U+23DF">>>>, <<"UnderBracket", <<"U+23B5">>>>,
    <<"UnderParenthesis", <<"U+23DD">>>>, <<"Union", <<"U+22C3">>>>,
    <<"UnionPlus", <<"U+228E">>>>, <<"Uogon", <<"U+0172">>>>,
    <<"Uopf", <<"U+1D54C">>>>, <<"UpArrow", <<"U+2191">>>>,
    <<"UpArrowBar", <<"U+2912">>>>, <<"UpArrowDownArrow", <<"U+21C5">>>>,
    <<"UpDownArrow", <<"U+2195">>>>, <<"UpEquilibrium", <<"U+296E">>>>,
    <<"UpTee", <<"U+22A5">>>>, <<"UpTeeArrow", <<"U+21A5">>>>,
    <<"Uparrow", <<"U+21D1">>>>, <<"Updownarrow", <<"U+21D5">>>>,
    <<"UpperLeftArrow", <<"U+2196">>>>, <<"UpperRightArrow", <<"U+2197">>>>,
    <<"Upsi", <<"U+03D2">>>>, <<"Upsilon", <<"U+03A5">>>>,
    <<"Uring", <<"U+016E">>>>, <<"Uscr", <<"U+1D4B0">>>>,
    <<"Utilde", <<"U+0168">>>>, <<"Uuml", <<"Ü">>>>,
    <<"VDash", <<"U+22AB">>>>, <<"Vbar", <<"U+2AEB">>>>,
    <<"Vcy", <<"U+0412">>>>, <<"Vdash", <<"U+22A9">>>>,
    <<"Vdashl", <<"U+2AE6">>>>, <<"Vee", <<"U+22C1">>>>,
    <<"Verbar", <<"U+2016">>>>, <<"Vert", <<"U+2016">>>>,
    <<"VerticalBar", <<"U+2223">>>>, <<"VerticalLine", <<"|">>>>,
    <<"VerticalSeparator", <<"U+2758">>>>, <<"VerticalTilde", <<"U+2240">>>>,
    <<"VeryThinSpace", <<"U+200A">>>>, <<"Vfr", <<"U+1D519">>>>,
    <<"Vopf", <<"U+1D54D">>>>, <<"Vscr", <<"U+1D4B1">>>>,
    <<"Vvdash", <<"U+22AA">>>>, <<"Wcirc", <<"U+0174">>>>,
    <<"Wedge", <<"U+22C0">>>>, <<"Wfr", <<"U+1D51A">>>>,
    <<"Wopf", <<"U+1D54E">>>>, <<"Wscr", <<"U+1D4B2">>>>,
    <<"Xfr", <<"U+1D51B">>>>, <<"Xi", <<"U+039E">>>>,
    <<"Xopf", <<"U+1D54F">>>>, <<"Xscr", <<"U+1D4B3">>>>,
    <<"YAcy", <<"U+042F">>>>, <<"YIcy", <<"U+0407">>>>,
    <<"YUcy", <<"U+042E">>>>, <<"Yacute", <<"Ý">>>>,
    <<"Ycirc", <<"U+0176">>>>, <<"Ycy", <<"U+042B">>>>,
    <<"Yfr", <<"U+1D51C">>>>, <<"Yopf", <<"U+1D550">>>>,
    <<"Yscr", <<"U+1D4B4">>>>, <<"Yuml", <<"U+0178">>>>,
    <<"ZHcy", <<"U+0416">>>>, <<"Zacute", <<"U+0179">>>>,
    <<"Zcaron", <<"U+017D">>>>, <<"Zcy", <<"U+0417">>>>,
    <<"Zdot", <<"U+017B">>>>, <<"ZeroWidthSpace", <<"U+200B">>>>,
    <<"Zeta", <<"U+0396">>>>, <<"Zfr", <<"U+2128">>>>,
    <<"Zopf", <<"U+2124">>>>, <<"Zscr", <<"U+1D4B5">>>>,
    <<"aacute", <<"á">>>>, <<"abreve", <<"U+0103">>>>,
    <<"ac", <<"U+223E">>>>, <<"acE", <<"U+223E", "U+0333">>>>,
    <<"acd", <<"U+223F">>>>, <<"acirc", <<"â">>>>, <<"acute", <<"´">>>>,
    <<"acy", <<"U+0430">>>>, <<"aelig", <<"æ">>>>, <<"af", <<"U+2061">>>>,
    <<"afr", <<"U+1D51E">>>>, <<"agrave", <<"à">>>>,
    <<"alefsym", <<"U+2135">>>>, <<"aleph", <<"U+2135">>>>,
    <<"alpha", <<"U+03B1">>>>, <<"amacr", <<"U+0101">>>>,
    <<"amalg", <<"U+2A3F">>>>, <<"amp", <<"&">>>>, <<"and", <<"U+2227">>>>,
    <<"andand", <<"U+2A55">>>>, <<"andd", <<"U+2A5C">>>>,
    <<"andslope", <<"U+2A58">>>>, <<"andv", <<"U+2A5A">>>>,
    <<"ang", <<"U+2220">>>>, <<"ange", <<"U+29A4">>>>,
    <<"angle", <<"U+2220">>>>, <<"angmsd", <<"U+2221">>>>,
    <<"angmsdaa", <<"U+29A8">>>>, <<"angmsdab", <<"U+29A9">>>>,
    <<"angmsdac", <<"U+29AA">>>>, <<"angmsdad", <<"U+29AB">>>>,
    <<"angmsdae", <<"U+29AC">>>>, <<"angmsdaf", <<"U+29AD">>>>,
    <<"angmsdag", <<"U+29AE">>>>, <<"angmsdah", <<"U+29AF">>>>,
    <<"angrt", <<"U+221F">>>>, <<"angrtvb", <<"U+22BE">>>>,
    <<"angrtvbd", <<"U+299D">>>>, <<"angsph", <<"U+2222">>>>,
    <<"angst", <<"Å">>>>, <<"angzarr", <<"U+237C">>>>,
    <<"aogon", <<"U+0105">>>>, <<"aopf", <<"U+1D552">>>>,
    <<"ap", <<"U+2248">>>>, <<"apE", <<"U+2A70">>>>,
    <<"apacir", <<"U+2A6F">>>>, <<"ape", <<"U+224A">>>>,
    <<"apid", <<"U+224B">>>>, <<"apos", <<"'">>>>,
    <<"approx", <<"U+2248">>>>, <<"approxeq", <<"U+224A">>>>,
    <<"aring", <<"å">>>>, <<"ascr", <<"U+1D4B6">>>>, <<"ast", <<"*">>>>,
    <<"asymp", <<"U+2248">>>>, <<"asympeq", <<"U+224D">>>>,
    <<"atilde", <<"ã">>>>, <<"auml", <<"ä">>>>, <<"awconint", <<"U+2233">>>>,
    <<"awint", <<"U+2A11">>>>, <<"bNot", <<"U+2AED">>>>,
    <<"backcong", <<"U+224C">>>>, <<"backepsilon", <<"U+03F6">>>>,
    <<"backprime", <<"U+2035">>>>, <<"backsim", <<"U+223D">>>>,
    <<"backsimeq", <<"U+22CD">>>>, <<"barvee", <<"U+22BD">>>>,
    <<"barwed", <<"U+2305">>>>, <<"barwedge", <<"U+2305">>>>,
    <<"bbrk", <<"U+23B5">>>>, <<"bbrktbrk", <<"U+23B6">>>>,
    <<"bcong", <<"U+224C">>>>, <<"bcy", <<"U+0431">>>>,
    <<"bdquo", <<"U+201E">>>>, <<"becaus", <<"U+2235">>>>,
    <<"because", <<"U+2235">>>>, <<"bemptyv", <<"U+29B0">>>>,
    <<"bepsi", <<"U+03F6">>>>, <<"bernou", <<"U+212C">>>>,
    <<"beta", <<"U+03B2">>>>, <<"beth", <<"U+2136">>>>,
    <<"between", <<"U+226C">>>>, <<"bfr", <<"U+1D51F">>>>,
    <<"bigcap", <<"U+22C2">>>>, <<"bigcirc", <<"U+25EF">>>>,
    <<"bigcup", <<"U+22C3">>>>, <<"bigodot", <<"U+2A00">>>>,
    <<"bigoplus", <<"U+2A01">>>>, <<"bigotimes", <<"U+2A02">>>>,
    <<"bigsqcup", <<"U+2A06">>>>, <<"bigstar", <<"U+2605">>>>,
    <<"bigtriangledown", <<"U+25BD">>>>, <<"bigtriangleup", <<"U+25B3">>>>,
    <<"biguplus", <<"U+2A04">>>>, <<"bigvee", <<"U+22C1">>>>,
    <<"bigwedge", <<"U+22C0">>>>, <<"bkarow", <<"U+290D">>>>,
    <<"blacklozenge", <<"U+29EB">>>>, <<"blacksquare", <<"U+25AA">>>>,
    <<"blacktriangle", <<"U+25B4">>>>, <<"blacktriangledown", <<"U+25BE">>>>,
    <<"blacktriangleleft", <<"U+25C2">>>>,
    <<"blacktriangleright", <<"U+25B8">>>>, <<"blank", <<"U+2423">>>>,
    <<"blk12", <<"U+2592">>>>, <<"blk14", <<"U+2591">>>>,
    <<"blk34", <<"U+2593">>>>, <<"block", <<"U+2588">>>>,
    <<"bne", <<"=", "U+20E5">>>>, <<"bnequiv", <<"U+2261", "U+20E5">>>>,
    <<"bnot", <<"U+2310">>>>, <<"bopf", <<"U+1D553">>>>,
    <<"bot", <<"U+22A5">>>>, <<"bottom", <<"U+22A5">>>>,
    <<"bowtie", <<"U+22C8">>>>, <<"boxDL", <<"U+2557">>>>,
    <<"boxDR", <<"U+2554">>>>, <<"boxDl", <<"U+2556">>>>,
    <<"boxDr", <<"U+2553">>>>, <<"boxH", <<"U+2550">>>>,
    <<"boxHD", <<"U+2566">>>>, <<"boxHU", <<"U+2569">>>>,
    <<"boxHd", <<"U+2564">>>>, <<"boxHu", <<"U+2567">>>>,
    <<"boxUL", <<"U+255D">>>>, <<"boxUR", <<"U+255A">>>>,
    <<"boxUl", <<"U+255C">>>>, <<"boxUr", <<"U+2559">>>>,
    <<"boxV", <<"U+2551">>>>, <<"boxVH", <<"U+256C">>>>,
    <<"boxVL", <<"U+2563">>>>, <<"boxVR", <<"U+2560">>>>,
    <<"boxVh", <<"U+256B">>>>, <<"boxVl", <<"U+2562">>>>,
    <<"boxVr", <<"U+255F">>>>, <<"boxbox", <<"U+29C9">>>>,
    <<"boxdL", <<"U+2555">>>>, <<"boxdR", <<"U+2552">>>>,
    <<"boxdl", <<"U+2510">>>>, <<"boxdr", <<"U+250C">>>>,
    <<"boxh", <<"U+2500">>>>, <<"boxhD", <<"U+2565">>>>,
    <<"boxhU", <<"U+2568">>>>, <<"boxhd", <<"U+252C">>>>,
    <<"boxhu", <<"U+2534">>>>, <<"boxminus", <<"U+229F">>>>,
    <<"boxplus", <<"U+229E">>>>, <<"boxtimes", <<"U+22A0">>>>,
    <<"boxuL", <<"U+255B">>>>, <<"boxuR", <<"U+2558">>>>,
    <<"boxul", <<"U+2518">>>>, <<"boxur", <<"U+2514">>>>,
    <<"boxv", <<"U+2502">>>>, <<"boxvH", <<"U+256A">>>>,
    <<"boxvL", <<"U+2561">>>>, <<"boxvR", <<"U+255E">>>>,
    <<"boxvh", <<"U+253C">>>>, <<"boxvl", <<"U+2524">>>>,
    <<"boxvr", <<"U+251C">>>>, <<"bprime", <<"U+2035">>>>,
    <<"breve", <<"U+02D8">>>>, <<"brvbar", <<"¦">>>>,
    <<"bscr", <<"U+1D4B7">>>>, <<"bsemi", <<"U+204F">>>>,
    <<"bsim", <<"U+223D">>>>, <<"bsime", <<"U+22CD">>>>,
    <<"bsol", <<"\\">>>>, <<"bsolb", <<"U+29C5">>>>,
    <<"bsolhsub", <<"U+27C8">>>>, <<"bull", <<"U+2022">>>>,
    <<"bullet", <<"U+2022">>>>, <<"bump", <<"U+224E">>>>,
    <<"bumpE", <<"U+2AAE">>>>, <<"bumpe", <<"U+224F">>>>,
    <<"bumpeq", <<"U+224F">>>>, <<"cacute", <<"U+0107">>>>,
    <<"cap", <<"U+2229">>>>, <<"capand", <<"U+2A44">>>>,
    <<"capbrcup", <<"U+2A49">>>>, <<"capcap", <<"U+2A4B">>>>,
    <<"capcup", <<"U+2A47">>>>, <<"capdot", <<"U+2A40">>>>,
    <<"caps", <<"U+2229", "U+FE00">>>>, <<"caret", <<"U+2041">>>>,
    <<"caron", <<"U+02C7">>>>, <<"ccaps", <<"U+2A4D">>>>,
    <<"ccaron", <<"U+010D">>>>, <<"ccedil", <<"ç">>>>,
    <<"ccirc", <<"U+0109">>>>, <<"ccups", <<"U+2A4C">>>>,
    <<"ccupssm", <<"U+2A50">>>>, <<"cdot", <<"U+010B">>>>,
    <<"cedil", <<"¸">>>>, <<"cemptyv", <<"U+29B2">>>>, <<"cent", <<"¢">>>>,
    <<"centerdot", <<"·">>>>, <<"cfr", <<"U+1D520">>>>,
    <<"chcy", <<"U+0447">>>>, <<"check", <<"U+2713">>>>,
    <<"checkmark", <<"U+2713">>>>, <<"chi", <<"U+03C7">>>>,
    <<"cir", <<"U+25CB">>>>, <<"cirE", <<"U+29C3">>>>,
    <<"circ", <<"U+02C6">>>>, <<"circeq", <<"U+2257">>>>,
    <<"circlearrowleft", <<"U+21BA">>>>,
    <<"circlearrowright", <<"U+21BB">>>>, <<"circledR", <<"®">>>>,
    <<"circledS", <<"U+24C8">>>>, <<"circledast", <<"U+229B">>>>,
    <<"circledcirc", <<"U+229A">>>>, <<"circleddash", <<"U+229D">>>>,
    <<"cire", <<"U+2257">>>>, <<"cirfnint", <<"U+2A10">>>>,
    <<"cirmid", <<"U+2AEF">>>>, <<"cirscir", <<"U+29C2">>>>,
    <<"clubs", <<"U+2663">>>>, <<"clubsuit", <<"U+2663">>>>,
    <<"colon", <<":">>>>, <<"colone", <<"U+2254">>>>,
    <<"coloneq", <<"U+2254">>>>, <<"comma", <<",">>>>, <<"commat", <<"@">>>>,
    <<"comp", <<"U+2201">>>>, <<"compfn", <<"U+2218">>>>,
    <<"complement", <<"U+2201">>>>, <<"complexes", <<"U+2102">>>>,
    <<"cong", <<"U+2245">>>>, <<"congdot", <<"U+2A6D">>>>,
    <<"conint", <<"U+222E">>>>, <<"copf", <<"U+1D554">>>>,
    <<"coprod", <<"U+2210">>>>, <<"copy", <<"©">>>>,
    <<"copysr", <<"U+2117">>>>, <<"crarr", <<"U+21B5">>>>,
    <<"cross", <<"U+2717">>>>, <<"cscr", <<"U+1D4B8">>>>,
    <<"csub", <<"U+2ACF">>>>, <<"csube", <<"U+2AD1">>>>,
    <<"csup", <<"U+2AD0">>>>, <<"csupe", <<"U+2AD2">>>>,
    <<"ctdot", <<"U+22EF">>>>, <<"cudarrl", <<"U+2938">>>>,
    <<"cudarrr", <<"U+2935">>>>, <<"cuepr", <<"U+22DE">>>>,
    <<"cuesc", <<"U+22DF">>>>, <<"cularr", <<"U+21B6">>>>,
    <<"cularrp", <<"U+293D">>>>, <<"cup", <<"U+222A">>>>,
    <<"cupbrcap", <<"U+2A48">>>>, <<"cupcap", <<"U+2A46">>>>,
    <<"cupcup", <<"U+2A4A">>>>, <<"cupdot", <<"U+228D">>>>,
    <<"cupor", <<"U+2A45">>>>, <<"cups", <<"U+222A", "U+FE00">>>>,
    <<"curarr", <<"U+21B7">>>>, <<"curarrm", <<"U+293C">>>>,
    <<"curlyeqprec", <<"U+22DE">>>>, <<"curlyeqsucc", <<"U+22DF">>>>,
    <<"curlyvee", <<"U+22CE">>>>, <<"curlywedge", <<"U+22CF">>>>,
    <<"curren", <<"¤">>>>, <<"curvearrowleft", <<"U+21B6">>>>,
    <<"curvearrowright", <<"U+21B7">>>>, <<"cuvee", <<"U+22CE">>>>,
    <<"cuwed", <<"U+22CF">>>>, <<"cwconint", <<"U+2232">>>>,
    <<"cwint", <<"U+2231">>>>, <<"cylcty", <<"U+232D">>>>,
    <<"dArr", <<"U+21D3">>>>, <<"dHar", <<"U+2965">>>>,
    <<"dagger", <<"U+2020">>>>, <<"daleth", <<"U+2138">>>>,
    <<"darr", <<"U+2193">>>>, <<"dash", <<"U+2010">>>>,
    <<"dashv", <<"U+22A3">>>>, <<"dbkarow", <<"U+290F">>>>,
    <<"dblac", <<"U+02DD">>>>, <<"dcaron", <<"U+010F">>>>,
    <<"dcy", <<"U+0434">>>>, <<"dd", <<"U+2146">>>>,
    <<"ddagger", <<"U+2021">>>>, <<"ddarr", <<"U+21CA">>>>,
    <<"ddotseq", <<"U+2A77">>>>, <<"deg", <<"°">>>>,
    <<"delta", <<"U+03B4">>>>, <<"demptyv", <<"U+29B1">>>>,
    <<"dfisht", <<"U+297F">>>>, <<"dfr", <<"U+1D521">>>>,
    <<"dharl", <<"U+21C3">>>>, <<"dharr", <<"U+21C2">>>>,
    <<"diam", <<"U+22C4">>>>, <<"diamond", <<"U+22C4">>>>,
    <<"diamondsuit", <<"U+2666">>>>, <<"diams", <<"U+2666">>>>,
    <<"die", <<"¨">>>>, <<"digamma", <<"U+03DD">>>>,
    <<"disin", <<"U+22F2">>>>, <<"div", <<"÷">>>>, <<"divide", <<"÷">>>>,
    <<"divideontimes", <<"U+22C7">>>>, <<"divonx", <<"U+22C7">>>>,
    <<"djcy", <<"U+0452">>>>, <<"dlcorn", <<"U+231E">>>>,
    <<"dlcrop", <<"U+230D">>>>, <<"dollar", <<"$">>>>,
    <<"dopf", <<"U+1D555">>>>, <<"dot", <<"U+02D9">>>>,
    <<"doteq", <<"U+2250">>>>, <<"doteqdot", <<"U+2251">>>>,
    <<"dotminus", <<"U+2238">>>>, <<"dotplus", <<"U+2214">>>>,
    <<"dotsquare", <<"U+22A1">>>>, <<"doublebarwedge", <<"U+2306">>>>,
    <<"downarrow", <<"U+2193">>>>, <<"downdownarrows", <<"U+21CA">>>>,
    <<"downharpoonleft", <<"U+21C3">>>>,
    <<"downharpoonright", <<"U+21C2">>>>, <<"drbkarow", <<"U+2910">>>>,
    <<"drcorn", <<"U+231F">>>>, <<"drcrop", <<"U+230C">>>>,
    <<"dscr", <<"U+1D4B9">>>>, <<"dscy", <<"U+0455">>>>,
    <<"dsol", <<"U+29F6">>>>, <<"dstrok", <<"U+0111">>>>,
    <<"dtdot", <<"U+22F1">>>>, <<"dtri", <<"U+25BF">>>>,
    <<"dtrif", <<"U+25BE">>>>, <<"duarr", <<"U+21F5">>>>,
    <<"duhar", <<"U+296F">>>>, <<"dwangle", <<"U+29A6">>>>,
    <<"dzcy", <<"U+045F">>>>, <<"dzigrarr", <<"U+27FF">>>>,
    <<"eDDot", <<"U+2A77">>>>, <<"eDot", <<"U+2251">>>>,
    <<"eacute", <<"é">>>>, <<"easter", <<"U+2A6E">>>>,
    <<"ecaron", <<"U+011B">>>>, <<"ecir", <<"U+2256">>>>,
    <<"ecirc", <<"ê">>>>, <<"ecolon", <<"U+2255">>>>,
    <<"ecy", <<"U+044D">>>>, <<"edot", <<"U+0117">>>>,
    <<"ee", <<"U+2147">>>>, <<"efDot", <<"U+2252">>>>,
    <<"efr", <<"U+1D522">>>>, <<"eg", <<"U+2A9A">>>>, <<"egrave", <<"è">>>>,
    <<"egs", <<"U+2A96">>>>, <<"egsdot", <<"U+2A98">>>>,
    <<"el", <<"U+2A99">>>>, <<"elinters", <<"U+23E7">>>>,
    <<"ell", <<"U+2113">>>>, <<"els", <<"U+2A95">>>>,
    <<"elsdot", <<"U+2A97">>>>, <<"emacr", <<"U+0113">>>>,
    <<"empty", <<"U+2205">>>>, <<"emptyset", <<"U+2205">>>>,
    <<"emptyv", <<"U+2205">>>>, <<"emsp", <<"U+2003">>>>,
    <<"emsp13", <<"U+2004">>>>, <<"emsp14", <<"U+2005">>>>,
    <<"eng", <<"U+014B">>>>, <<"ensp", <<"U+2002">>>>,
    <<"eogon", <<"U+0119">>>>, <<"eopf", <<"U+1D556">>>>,
    <<"epar", <<"U+22D5">>>>, <<"eparsl", <<"U+29E3">>>>,
    <<"eplus", <<"U+2A71">>>>, <<"epsi", <<"U+03B5">>>>,
    <<"epsilon", <<"U+03B5">>>>, <<"epsiv", <<"U+03F5">>>>,
    <<"eqcirc", <<"U+2256">>>>, <<"eqcolon", <<"U+2255">>>>,
    <<"eqsim", <<"U+2242">>>>, <<"eqslantgtr", <<"U+2A96">>>>,
    <<"eqslantless", <<"U+2A95">>>>, <<"equals", <<"=">>>>,
    <<"equest", <<"U+225F">>>>, <<"equiv", <<"U+2261">>>>,
    <<"equivDD", <<"U+2A78">>>>, <<"eqvparsl", <<"U+29E5">>>>,
    <<"erDot", <<"U+2253">>>>, <<"erarr", <<"U+2971">>>>,
    <<"escr", <<"U+212F">>>>, <<"esdot", <<"U+2250">>>>,
    <<"esim", <<"U+2242">>>>, <<"eta", <<"U+03B7">>>>, <<"eth", <<"ð">>>>,
    <<"euml", <<"ë">>>>, <<"euro", <<"U+20AC">>>>, <<"excl", <<"!">>>>,
    <<"exist", <<"U+2203">>>>, <<"expectation", <<"U+2130">>>>,
    <<"exponentiale", <<"U+2147">>>>, <<"fallingdotseq", <<"U+2252">>>>,
    <<"fcy", <<"U+0444">>>>, <<"female", <<"U+2640">>>>,
    <<"ffilig", <<"U+FB03">>>>, <<"fflig", <<"U+FB00">>>>,
    <<"ffllig", <<"U+FB04">>>>, <<"ffr", <<"U+1D523">>>>,
    <<"filig", <<"U+FB01">>>>, <<"fjlig", <<"f", "j">>>>,
    <<"flat", <<"U+266D">>>>, <<"fllig", <<"U+FB02">>>>,
    <<"fltns", <<"U+25B1">>>>, <<"fnof", <<"U+0192">>>>,
    <<"fopf", <<"U+1D557">>>>, <<"forall", <<"U+2200">>>>,
    <<"fork", <<"U+22D4">>>>, <<"forkv", <<"U+2AD9">>>>,
    <<"fpartint", <<"U+2A0D">>>>, <<"frac12", <<"½">>>>,
    <<"frac13", <<"U+2153">>>>, <<"frac14", <<"¼">>>>,
    <<"frac15", <<"U+2155">>>>, <<"frac16", <<"U+2159">>>>,
    <<"frac18", <<"U+215B">>>>, <<"frac23", <<"U+2154">>>>,
    <<"frac25", <<"U+2156">>>>, <<"frac34", <<"¾">>>>,
    <<"frac35", <<"U+2157">>>>, <<"frac38", <<"U+215C">>>>,
    <<"frac45", <<"U+2158">>>>, <<"frac56", <<"U+215A">>>>,
    <<"frac58", <<"U+215D">>>>, <<"frac78", <<"U+215E">>>>,
    <<"frasl", <<"U+2044">>>>, <<"frown", <<"U+2322">>>>,
    <<"fscr", <<"U+1D4BB">>>>, <<"gE", <<"U+2267">>>>,
    <<"gEl", <<"U+2A8C">>>>, <<"gacute", <<"U+01F5">>>>,
    <<"gamma", <<"U+03B3">>>>, <<"gammad", <<"U+03DD">>>>,
    <<"gap", <<"U+2A86">>>>, <<"gbreve", <<"U+011F">>>>,
    <<"gcirc", <<"U+011D">>>>, <<"gcy", <<"U+0433">>>>,
    <<"gdot", <<"U+0121">>>>, <<"ge", <<"U+2265">>>>,
    <<"gel", <<"U+22DB">>>>, <<"geq", <<"U+2265">>>>,
    <<"geqq", <<"U+2267">>>>, <<"geqslant", <<"U+2A7E">>>>,
    <<"ges", <<"U+2A7E">>>>, <<"gescc", <<"U+2AA9">>>>,
    <<"gesdot", <<"U+2A80">>>>, <<"gesdoto", <<"U+2A82">>>>,
    <<"gesdotol", <<"U+2A84">>>>, <<"gesl", <<"U+22DB", "U+FE00">>>>,
    <<"gesles", <<"U+2A94">>>>, <<"gfr", <<"U+1D524">>>>,
    <<"gg", <<"U+226B">>>>, <<"ggg", <<"U+22D9">>>>,
    <<"gimel", <<"U+2137">>>>, <<"gjcy", <<"U+0453">>>>,
    <<"gl", <<"U+2277">>>>, <<"glE", <<"U+2A92">>>>, <<"gla", <<"U+2AA5">>>>,
    <<"glj", <<"U+2AA4">>>>, <<"gnE", <<"U+2269">>>>,
    <<"gnap", <<"U+2A8A">>>>, <<"gnapprox", <<"U+2A8A">>>>,
    <<"gne", <<"U+2A88">>>>, <<"gneq", <<"U+2A88">>>>,
    <<"gneqq", <<"U+2269">>>>, <<"gnsim", <<"U+22E7">>>>,
    <<"gopf", <<"U+1D558">>>>, <<"grave", <<"U+0060">>>>,
    <<"gscr", <<"U+210A">>>>, <<"gsim", <<"U+2273">>>>,
    <<"gsime", <<"U+2A8E">>>>, <<"gsiml", <<"U+2A90">>>>, <<"gt", <<">">>>>,
    <<"gtcc", <<"U+2AA7">>>>, <<"gtcir", <<"U+2A7A">>>>,
    <<"gtdot", <<"U+22D7">>>>, <<"gtlPar", <<"U+2995">>>>,
    <<"gtquest", <<"U+2A7C">>>>, <<"gtrapprox", <<"U+2A86">>>>,
    <<"gtrarr", <<"U+2978">>>>, <<"gtrdot", <<"U+22D7">>>>,
    <<"gtreqless", <<"U+22DB">>>>, <<"gtreqqless", <<"U+2A8C">>>>,
    <<"gtrless", <<"U+2277">>>>, <<"gtrsim", <<"U+2273">>>>,
    <<"gvertneqq", <<"U+2269", "U+FE00">>>>,
    <<"gvnE", <<"U+2269", "U+FE00">>>>, <<"hArr", <<"U+21D4">>>>,
    <<"hairsp", <<"U+200A">>>>, <<"half", <<"½">>>>,
    <<"hamilt", <<"U+210B">>>>, <<"hardcy", <<"U+044A">>>>,
    <<"harr", <<"U+2194">>>>, <<"harrcir", <<"U+2948">>>>,
    <<"harrw", <<"U+21AD">>>>, <<"hbar", <<"U+210F">>>>,
    <<"hcirc", <<"U+0125">>>>, <<"hearts", <<"U+2665">>>>,
    <<"heartsuit", <<"U+2665">>>>, <<"hellip", <<"U+2026">>>>,
    <<"hercon", <<"U+22B9">>>>, <<"hfr", <<"U+1D525">>>>,
    <<"hksearow", <<"U+2925">>>>, <<"hkswarow", <<"U+2926">>>>,
    <<"hoarr", <<"U+21FF">>>>, <<"homtht", <<"U+223B">>>>,
    <<"hookleftarrow", <<"U+21A9">>>>, <<"hookrightarrow", <<"U+21AA">>>>,
    <<"hopf", <<"U+1D559">>>>, <<"horbar", <<"U+2015">>>>,
    <<"hscr", <<"U+1D4BD">>>>, <<"hslash", <<"U+210F">>>>,
    <<"hstrok", <<"U+0127">>>>, <<"hybull", <<"U+2043">>>>,
    <<"hyphen", <<"U+2010">>>>, <<"iacute", <<"í">>>>,
    <<"ic", <<"U+2063">>>>, <<"icirc", <<"î">>>>, <<"icy", <<"U+0438">>>>,
    <<"iecy", <<"U+0435">>>>, <<"iexcl", <<"¡">>>>, <<"iff", <<"U+21D4">>>>,
    <<"ifr", <<"U+1D526">>>>, <<"igrave", <<"ì">>>>, <<"ii", <<"U+2148">>>>,
    <<"iiiint", <<"U+2A0C">>>>, <<"iiint", <<"U+222D">>>>,
    <<"iinfin", <<"U+29DC">>>>, <<"iiota", <<"U+2129">>>>,
    <<"ijlig", <<"U+0133">>>>, <<"imacr", <<"U+012B">>>>,
    <<"image", <<"U+2111">>>>, <<"imagline", <<"U+2110">>>>,
    <<"imagpart", <<"U+2111">>>>, <<"imath", <<"U+0131">>>>,
    <<"imof", <<"U+22B7">>>>, <<"imped", <<"U+01B5">>>>,
    <<"in", <<"U+2208">>>>, <<"incare", <<"U+2105">>>>,
    <<"infin", <<"U+221E">>>>, <<"infintie", <<"U+29DD">>>>,
    <<"inodot", <<"U+0131">>>>, <<"int", <<"U+222B">>>>,
    <<"intcal", <<"U+22BA">>>>, <<"integers", <<"U+2124">>>>,
    <<"intercal", <<"U+22BA">>>>, <<"intlarhk", <<"U+2A17">>>>,
    <<"intprod", <<"U+2A3C">>>>, <<"iocy", <<"U+0451">>>>,
    <<"iogon", <<"U+012F">>>>, <<"iopf", <<"U+1D55A">>>>,
    <<"iota", <<"U+03B9">>>>, <<"iprod", <<"U+2A3C">>>>,
    <<"iquest", <<"¿">>>>, <<"iscr", <<"U+1D4BE">>>>,
    <<"isin", <<"U+2208">>>>, <<"isinE", <<"U+22F9">>>>,
    <<"isindot", <<"U+22F5">>>>, <<"isins", <<"U+22F4">>>>,
    <<"isinsv", <<"U+22F3">>>>, <<"isinv", <<"U+2208">>>>,
    <<"it", <<"U+2062">>>>, <<"itilde", <<"U+0129">>>>,
    <<"iukcy", <<"U+0456">>>>, <<"iuml", <<"ï">>>>,
    <<"jcirc", <<"U+0135">>>>, <<"jcy", <<"U+0439">>>>,
    <<"jfr", <<"U+1D527">>>>, <<"jmath", <<"U+0237">>>>,
    <<"jopf", <<"U+1D55B">>>>, <<"jscr", <<"U+1D4BF">>>>,
    <<"jsercy", <<"U+0458">>>>, <<"jukcy", <<"U+0454">>>>,
    <<"kappa", <<"U+03BA">>>>, <<"kappav", <<"U+03F0">>>>,
    <<"kcedil", <<"U+0137">>>>, <<"kcy", <<"U+043A">>>>,
    <<"kfr", <<"U+1D528">>>>, <<"kgreen", <<"U+0138">>>>,
    <<"khcy", <<"U+0445">>>>, <<"kjcy", <<"U+045C">>>>,
    <<"kopf", <<"U+1D55C">>>>, <<"kscr", <<"U+1D4C0">>>>,
    <<"lAarr", <<"U+21DA">>>>, <<"lArr", <<"U+21D0">>>>,
    <<"lAtail", <<"U+291B">>>>, <<"lBarr", <<"U+290E">>>>,
    <<"lE", <<"U+2266">>>>, <<"lEg", <<"U+2A8B">>>>,
    <<"lHar", <<"U+2962">>>>, <<"lacute", <<"U+013A">>>>,
    <<"laemptyv", <<"U+29B4">>>>, <<"lagran", <<"U+2112">>>>,
    <<"lambda", <<"U+03BB">>>>, <<"lang", <<"U+27E8">>>>,
    <<"langd", <<"U+2991">>>>, <<"langle", <<"U+27E8">>>>,
    <<"lap", <<"U+2A85">>>>, <<"laquo", <<"«">>>>, <<"larr", <<"U+2190">>>>,
    <<"larrb", <<"U+21E4">>>>, <<"larrbfs", <<"U+291F">>>>,
    <<"larrfs", <<"U+291D">>>>, <<"larrhk", <<"U+21A9">>>>,
    <<"larrlp", <<"U+21AB">>>>, <<"larrpl", <<"U+2939">>>>,
    <<"larrsim", <<"U+2973">>>>, <<"larrtl", <<"U+21A2">>>>,
    <<"lat", <<"U+2AAB">>>>, <<"latail", <<"U+2919">>>>,
    <<"late", <<"U+2AAD">>>>, <<"lates", <<"U+2AAD", "U+FE00">>>>,
    <<"lbarr", <<"U+290C">>>>, <<"lbbrk", <<"U+2772">>>>,
    <<"lbrace", <<"{">>>>, <<"lbrack", <<"[">>>>, <<"lbrke", <<"U+298B">>>>,
    <<"lbrksld", <<"U+298F">>>>, <<"lbrkslu", <<"U+298D">>>>,
    <<"lcaron", <<"U+013E">>>>, <<"lcedil", <<"U+013C">>>>,
    <<"lceil", <<"U+2308">>>>, <<"lcub", <<"{">>>>, <<"lcy", <<"U+043B">>>>,
    <<"ldca", <<"U+2936">>>>, <<"ldquo", <<"U+201C">>>>,
    <<"ldquor", <<"U+201E">>>>, <<"ldrdhar", <<"U+2967">>>>,
    <<"ldrushar", <<"U+294B">>>>, <<"ldsh", <<"U+21B2">>>>,
    <<"le", <<"U+2264">>>>, <<"leftarrow", <<"U+2190">>>>,
    <<"leftarrowtail", <<"U+21A2">>>>, <<"leftharpoondown", <<"U+21BD">>>>,
    <<"leftharpoonup", <<"U+21BC">>>>, <<"leftleftarrows", <<"U+21C7">>>>,
    <<"leftrightarrow", <<"U+2194">>>>, <<"leftrightarrows", <<"U+21C6">>>>,
    <<"leftrightharpoons", <<"U+21CB">>>>,
    <<"leftrightsquigarrow", <<"U+21AD">>>>,
    <<"leftthreetimes", <<"U+22CB">>>>, <<"leg", <<"U+22DA">>>>,
    <<"leq", <<"U+2264">>>>, <<"leqq", <<"U+2266">>>>,
    <<"leqslant", <<"U+2A7D">>>>, <<"les", <<"U+2A7D">>>>,
    <<"lescc", <<"U+2AA8">>>>, <<"lesdot", <<"U+2A7F">>>>,
    <<"lesdoto", <<"U+2A81">>>>, <<"lesdotor", <<"U+2A83">>>>,
    <<"lesg", <<"U+22DA", "U+FE00">>>>, <<"lesges", <<"U+2A93">>>>,
    <<"lessapprox", <<"U+2A85">>>>, <<"lessdot", <<"U+22D6">>>>,
    <<"lesseqgtr", <<"U+22DA">>>>, <<"lesseqqgtr", <<"U+2A8B">>>>,
    <<"lessgtr", <<"U+2276">>>>, <<"lesssim", <<"U+2272">>>>,
    <<"lfisht", <<"U+297C">>>>, <<"lfloor", <<"U+230A">>>>,
    <<"lfr", <<"U+1D529">>>>, <<"lg", <<"U+2276">>>>,
    <<"lgE", <<"U+2A91">>>>, <<"lhard", <<"U+21BD">>>>,
    <<"lharu", <<"U+21BC">>>>, <<"lharul", <<"U+296A">>>>,
    <<"lhblk", <<"U+2584">>>>, <<"ljcy", <<"U+0459">>>>,
    <<"ll", <<"U+226A">>>>, <<"llarr", <<"U+21C7">>>>,
    <<"llcorner", <<"U+231E">>>>, <<"llhard", <<"U+296B">>>>,
    <<"lltri", <<"U+25FA">>>>, <<"lmidot", <<"U+0140">>>>,
    <<"lmoust", <<"U+23B0">>>>, <<"lmoustache", <<"U+23B0">>>>,
    <<"lnE", <<"U+2268">>>>, <<"lnap", <<"U+2A89">>>>,
    <<"lnapprox", <<"U+2A89">>>>, <<"lne", <<"U+2A87">>>>,
    <<"lneq", <<"U+2A87">>>>, <<"lneqq", <<"U+2268">>>>,
    <<"lnsim", <<"U+22E6">>>>, <<"loang", <<"U+27EC">>>>,
    <<"loarr", <<"U+21FD">>>>, <<"lobrk", <<"U+27E6">>>>,
    <<"longleftarrow", <<"U+27F5">>>>,
    <<"longleftrightarrow", <<"U+27F7">>>>, <<"longmapsto", <<"U+27FC">>>>,
    <<"longrightarrow", <<"U+27F6">>>>, <<"looparrowleft", <<"U+21AB">>>>,
    <<"looparrowright", <<"U+21AC">>>>, <<"lopar", <<"U+2985">>>>,
    <<"lopf", <<"U+1D55D">>>>, <<"loplus", <<"U+2A2D">>>>,
    <<"lotimes", <<"U+2A34">>>>, <<"lowast", <<"U+2217">>>>,
    <<"lowbar", <<"_">>>>, <<"loz", <<"U+25CA">>>>,
    <<"lozenge", <<"U+25CA">>>>, <<"lozf", <<"U+29EB">>>>,
    <<"lpar", <<"(">>>>, <<"lparlt", <<"U+2993">>>>,
    <<"lrarr", <<"U+21C6">>>>, <<"lrcorner", <<"U+231F">>>>,
    <<"lrhar", <<"U+21CB">>>>, <<"lrhard", <<"U+296D">>>>,
    <<"lrm", <<"U+200E">>>>, <<"lrtri", <<"U+22BF">>>>,
    <<"lsaquo", <<"U+2039">>>>, <<"lscr", <<"U+1D4C1">>>>,
    <<"lsh", <<"U+21B0">>>>, <<"lsim", <<"U+2272">>>>,
    <<"lsime", <<"U+2A8D">>>>, <<"lsimg", <<"U+2A8F">>>>,
    <<"lsqb", <<"[">>>>, <<"lsquo", <<"U+2018">>>>,
    <<"lsquor", <<"U+201A">>>>, <<"lstrok", <<"U+0142">>>>,
    <<"lt", <<"<">>>>, <<"ltcc", <<"U+2AA6">>>>, <<"ltcir", <<"U+2A79">>>>,
    <<"ltdot", <<"U+22D6">>>>, <<"lthree", <<"U+22CB">>>>,
    <<"ltimes", <<"U+22C9">>>>, <<"ltlarr", <<"U+2976">>>>,
    <<"ltquest", <<"U+2A7B">>>>, <<"ltrPar", <<"U+2996">>>>,
    <<"ltri", <<"U+25C3">>>>, <<"ltrie", <<"U+22B4">>>>,
    <<"ltrif", <<"U+25C2">>>>, <<"lurdshar", <<"U+294A">>>>,
    <<"luruhar", <<"U+2966">>>>, <<"lvertneqq", <<"U+2268", "U+FE00">>>>,
    <<"lvnE", <<"U+2268", "U+FE00">>>>, <<"mDDot", <<"U+223A">>>>,
    <<"macr", <<"¯">>>>, <<"male", <<"U+2642">>>>, <<"malt", <<"U+2720">>>>,
    <<"maltese", <<"U+2720">>>>, <<"map", <<"U+21A6">>>>,
    <<"mapsto", <<"U+21A6">>>>, <<"mapstodown", <<"U+21A7">>>>,
    <<"mapstoleft", <<"U+21A4">>>>, <<"mapstoup", <<"U+21A5">>>>,
    <<"marker", <<"U+25AE">>>>, <<"mcomma", <<"U+2A29">>>>,
    <<"mcy", <<"U+043C">>>>, <<"mdash", <<"U+2014">>>>,
    <<"measuredangle", <<"U+2221">>>>, <<"mfr", <<"U+1D52A">>>>,
    <<"mho", <<"U+2127">>>>, <<"micro", <<"µ">>>>, <<"mid", <<"U+2223">>>>,
    <<"midast", <<"*">>>>, <<"midcir", <<"U+2AF0">>>>, <<"middot", <<"·">>>>,
    <<"minus", <<"U+2212">>>>, <<"minusb", <<"U+229F">>>>,
    <<"minusd", <<"U+2238">>>>, <<"minusdu", <<"U+2A2A">>>>,
    <<"mlcp", <<"U+2ADB">>>>, <<"mldr", <<"U+2026">>>>,
    <<"mnplus", <<"U+2213">>>>, <<"models", <<"U+22A7">>>>,
    <<"mopf", <<"U+1D55E">>>>, <<"mp", <<"U+2213">>>>,
    <<"mscr", <<"U+1D4C2">>>>, <<"mstpos", <<"U+223E">>>>,
    <<"mu", <<"U+03BC">>>>, <<"multimap", <<"U+22B8">>>>,
    <<"mumap", <<"U+22B8">>>>, <<"nGg", <<"U+22D9", "U+0338">>>>,
    <<"nGt", <<"U+226B", "U+20D2">>>>, <<"nGtv", <<"U+226B", "U+0338">>>>,
    <<"nLeftarrow", <<"U+21CD">>>>, <<"nLeftrightarrow", <<"U+21CE">>>>,
    <<"nLl", <<"U+22D8", "U+0338">>>>, <<"nLt", <<"U+226A", "U+20D2">>>>,
    <<"nLtv", <<"U+226A", "U+0338">>>>, <<"nRightarrow", <<"U+21CF">>>>,
    <<"nVDash", <<"U+22AF">>>>, <<"nVdash", <<"U+22AE">>>>,
    <<"nabla", <<"U+2207">>>>, <<"nacute", <<"U+0144">>>>,
    <<"nang", <<"U+2220", "U+20D2">>>>, <<"nap", <<"U+2249">>>>,
    <<"napE", <<"U+2A70", "U+0338">>>>, <<"napid", <<"U+224B", "U+0338">>>>,
    <<"napos", <<"U+0149">>>>, <<"napprox", <<"U+2249">>>>,
    <<"natur", <<"U+266E">>>>, <<"natural", <<"U+266E">>>>,
    <<"naturals", <<"U+2115">>>>, <<"nbsp", <<"U+00A0">>>>,
    <<"nbump", <<"U+224E", "U+0338">>>>,
    <<"nbumpe", <<"U+224F", "U+0338">>>>, <<"ncap", <<"U+2A43">>>>,
    <<"ncaron", <<"U+0148">>>>, <<"ncedil", <<"U+0146">>>>,
    <<"ncong", <<"U+2247">>>>, <<"ncongdot", <<"U+2A6D", "U+0338">>>>,
    <<"ncup", <<"U+2A42">>>>, <<"ncy", <<"U+043D">>>>,
    <<"ndash", <<"U+2013">>>>, <<"ne", <<"U+2260">>>>,
    <<"neArr", <<"U+21D7">>>>, <<"nearhk", <<"U+2924">>>>,
    <<"nearr", <<"U+2197">>>>, <<"nearrow", <<"U+2197">>>>,
    <<"nedot", <<"U+2250", "U+0338">>>>, <<"nequiv", <<"U+2262">>>>,
    <<"nesear", <<"U+2928">>>>, <<"nesim", <<"U+2242", "U+0338">>>>,
    <<"nexist", <<"U+2204">>>>, <<"nexists", <<"U+2204">>>>,
    <<"nfr", <<"U+1D52B">>>>, <<"ngE", <<"U+2267", "U+0338">>>>,
    <<"nge", <<"U+2271">>>>, <<"ngeq", <<"U+2271">>>>,
    <<"ngeqq", <<"U+2267", "U+0338">>>>,
    <<"ngeqslant", <<"U+2A7E", "U+0338">>>>,
    <<"nges", <<"U+2A7E", "U+0338">>>>, <<"ngsim", <<"U+2275">>>>,
    <<"ngt", <<"U+226F">>>>, <<"ngtr", <<"U+226F">>>>,
    <<"nhArr", <<"U+21CE">>>>, <<"nharr", <<"U+21AE">>>>,
    <<"nhpar", <<"U+2AF2">>>>, <<"ni", <<"U+220B">>>>,
    <<"nis", <<"U+22FC">>>>, <<"nisd", <<"U+22FA">>>>,
    <<"niv", <<"U+220B">>>>, <<"njcy", <<"U+045A">>>>,
    <<"nlArr", <<"U+21CD">>>>, <<"nlE", <<"U+2266", "U+0338">>>>,
    <<"nlarr", <<"U+219A">>>>, <<"nldr", <<"U+2025">>>>,
    <<"nle", <<"U+2270">>>>, <<"nleftarrow", <<"U+219A">>>>,
    <<"nleftrightarrow", <<"U+21AE">>>>, <<"nleq", <<"U+2270">>>>,
    <<"nleqq", <<"U+2266", "U+0338">>>>,
    <<"nleqslant", <<"U+2A7D", "U+0338">>>>,
    <<"nles", <<"U+2A7D", "U+0338">>>>, <<"nless", <<"U+226E">>>>,
    <<"nlsim", <<"U+2274">>>>, <<"nlt", <<"U+226E">>>>,
    <<"nltri", <<"U+22EA">>>>, <<"nltrie", <<"U+22EC">>>>,
    <<"nmid", <<"U+2224">>>>, <<"nopf", <<"U+1D55F">>>>, <<"not", <<"¬">>>>,
    <<"notin", <<"U+2209">>>>, <<"notinE", <<"U+22F9", "U+0338">>>>,
    <<"notindot", <<"U+22F5", "U+0338">>>>, <<"notinva", <<"U+2209">>>>,
    <<"notinvb", <<"U+22F7">>>>, <<"notinvc", <<"U+22F6">>>>,
    <<"notni", <<"U+220C">>>>, <<"notniva", <<"U+220C">>>>,
    <<"notnivb", <<"U+22FE">>>>, <<"notnivc", <<"U+22FD">>>>,
    <<"npar", <<"U+2226">>>>, <<"nparallel", <<"U+2226">>>>,
    <<"nparsl", <<"U+2AFD", "U+20E5">>>>,
    <<"npart", <<"U+2202", "U+0338">>>>, <<"npolint", <<"U+2A14">>>>,
    <<"npr", <<"U+2280">>>>, <<"nprcue", <<"U+22E0">>>>,
    <<"npre", <<"U+2AAF", "U+0338">>>>, <<"nprec", <<"U+2280">>>>,
    <<"npreceq", <<"U+2AAF", "U+0338">>>>, <<"nrArr", <<"U+21CF">>>>,
    <<"nrarr", <<"U+219B">>>>, <<"nrarrc", <<"U+2933", "U+0338">>>>,
    <<"nrarrw", <<"U+219D", "U+0338">>>>, <<"nrightarrow", <<"U+219B">>>>,
    <<"nrtri", <<"U+22EB">>>>, <<"nrtrie", <<"U+22ED">>>>,
    <<"nsc", <<"U+2281">>>>, <<"nsccue", <<"U+22E1">>>>,
    <<"nsce", <<"U+2AB0", "U+0338">>>>, <<"nscr", <<"U+1D4C3">>>>,
    <<"nshortmid", <<"U+2224">>>>, <<"nshortparallel", <<"U+2226">>>>,
    <<"nsim", <<"U+2241">>>>, <<"nsime", <<"U+2244">>>>,
    <<"nsimeq", <<"U+2244">>>>, <<"nsmid", <<"U+2224">>>>,
    <<"nspar", <<"U+2226">>>>, <<"nsqsube", <<"U+22E2">>>>,
    <<"nsqsupe", <<"U+22E3">>>>, <<"nsub", <<"U+2284">>>>,
    <<"nsubE", <<"U+2AC5", "U+0338">>>>, <<"nsube", <<"U+2288">>>>,
    <<"nsubset", <<"U+2282", "U+20D2">>>>, <<"nsubseteq", <<"U+2288">>>>,
    <<"nsubseteqq", <<"U+2AC5", "U+0338">>>>, <<"nsucc", <<"U+2281">>>>,
    <<"nsucceq", <<"U+2AB0", "U+0338">>>>, <<"nsup", <<"U+2285">>>>,
    <<"nsupE", <<"U+2AC6", "U+0338">>>>, <<"nsupe", <<"U+2289">>>>,
    <<"nsupset", <<"U+2283", "U+20D2">>>>, <<"nsupseteq", <<"U+2289">>>>,
    <<"nsupseteqq", <<"U+2AC6", "U+0338">>>>, <<"ntgl", <<"U+2279">>>>,
    <<"ntilde", <<"ñ">>>>, <<"ntlg", <<"U+2278">>>>,
    <<"ntriangleleft", <<"U+22EA">>>>, <<"ntrianglelefteq", <<"U+22EC">>>>,
    <<"ntriangleright", <<"U+22EB">>>>, <<"ntrianglerighteq", <<"U+22ED">>>>,
    <<"nu", <<"U+03BD">>>>, <<"num", <<"#">>>>, <<"numero", <<"U+2116">>>>,
    <<"numsp", <<"U+2007">>>>, <<"nvDash", <<"U+22AD">>>>,
    <<"nvHarr", <<"U+2904">>>>, <<"nvap", <<"U+224D", "U+20D2">>>>,
    <<"nvdash", <<"U+22AC">>>>, <<"nvge", <<"U+2265", "U+20D2">>>>,
    <<"nvgt", <<">", "U+20D2">>>>, <<"nvinfin", <<"U+29DE">>>>,
    <<"nvlArr", <<"U+2902">>>>, <<"nvle", <<"U+2264", "U+20D2">>>>,
    <<"nvlt", <<"<", "U+20D2">>>>, <<"nvltrie", <<"U+22B4", "U+20D2">>>>,
    <<"nvrArr", <<"U+2903">>>>, <<"nvrtrie", <<"U+22B5", "U+20D2">>>>,
    <<"nvsim", <<"U+223C", "U+20D2">>>>, <<"nwArr", <<"U+21D6">>>>,
    <<"nwarhk", <<"U+2923">>>>, <<"nwarr", <<"U+2196">>>>,
    <<"nwarrow", <<"U+2196">>>>, <<"nwnear", <<"U+2927">>>>,
    <<"oS", <<"U+24C8">>>>, <<"oacute", <<"ó">>>>, <<"oast", <<"U+229B">>>>,
    <<"ocir", <<"U+229A">>>>, <<"ocirc", <<"ô">>>>, <<"ocy", <<"U+043E">>>>,
    <<"odash", <<"U+229D">>>>, <<"odblac", <<"U+0151">>>>,
    <<"odiv", <<"U+2A38">>>>, <<"odot", <<"U+2299">>>>,
    <<"odsold", <<"U+29BC">>>>, <<"oelig", <<"U+0153">>>>,
    <<"ofcir", <<"U+29BF">>>>, <<"ofr", <<"U+1D52C">>>>,
    <<"ogon", <<"U+02DB">>>>, <<"ograve", <<"ò">>>>, <<"ogt", <<"U+29C1">>>>,
    <<"ohbar", <<"U+29B5">>>>, <<"ohm", <<"U+03A9">>>>,
    <<"oint", <<"U+222E">>>>, <<"olarr", <<"U+21BA">>>>,
    <<"olcir", <<"U+29BE">>>>, <<"olcross", <<"U+29BB">>>>,
    <<"oline", <<"U+203E">>>>, <<"olt", <<"U+29C0">>>>,
    <<"omacr", <<"U+014D">>>>, <<"omega", <<"U+03C9">>>>,
    <<"omicron", <<"U+03BF">>>>, <<"omid", <<"U+29B6">>>>,
    <<"ominus", <<"U+2296">>>>, <<"oopf", <<"U+1D560">>>>,
    <<"opar", <<"U+29B7">>>>, <<"operp", <<"U+29B9">>>>,
    <<"oplus", <<"U+2295">>>>, <<"or", <<"U+2228">>>>,
    <<"orarr", <<"U+21BB">>>>, <<"ord", <<"U+2A5D">>>>,
    <<"order", <<"U+2134">>>>, <<"orderof", <<"U+2134">>>>,
    <<"ordf", <<"ª">>>>, <<"ordm", <<"º">>>>, <<"origof", <<"U+22B6">>>>,
    <<"oror", <<"U+2A56">>>>, <<"orslope", <<"U+2A57">>>>,
    <<"orv", <<"U+2A5B">>>>, <<"oscr", <<"U+2134">>>>, <<"oslash", <<"ø">>>>,
    <<"osol", <<"U+2298">>>>, <<"otilde", <<"õ">>>>,
    <<"otimes", <<"U+2297">>>>, <<"otimesas", <<"U+2A36">>>>,
    <<"ouml", <<"ö">>>>, <<"ovbar", <<"U+233D">>>>, <<"par", <<"U+2225">>>>,
    <<"para", <<"¶">>>>, <<"parallel", <<"U+2225">>>>,
    <<"parsim", <<"U+2AF3">>>>, <<"parsl", <<"U+2AFD">>>>,
    <<"part", <<"U+2202">>>>, <<"pcy", <<"U+043F">>>>, <<"percnt", <<"%">>>>,
    <<"period", <<".">>>>, <<"permil", <<"U+2030">>>>,
    <<"perp", <<"U+22A5">>>>, <<"pertenk", <<"U+2031">>>>,
    <<"pfr", <<"U+1D52D">>>>, <<"phi", <<"U+03C6">>>>,
    <<"phiv", <<"U+03D5">>>>, <<"phmmat", <<"U+2133">>>>,
    <<"phone", <<"U+260E">>>>, <<"pi", <<"U+03C0">>>>,
    <<"pitchfork", <<"U+22D4">>>>, <<"piv", <<"U+03D6">>>>,
    <<"planck", <<"U+210F">>>>, <<"planckh", <<"U+210E">>>>,
    <<"plankv", <<"U+210F">>>>, <<"plus", <<"+">>>>,
    <<"plusacir", <<"U+2A23">>>>, <<"plusb", <<"U+229E">>>>,
    <<"pluscir", <<"U+2A22">>>>, <<"plusdo", <<"U+2214">>>>,
    <<"plusdu", <<"U+2A25">>>>, <<"pluse", <<"U+2A72">>>>,
    <<"plusmn", <<"±">>>>, <<"plussim", <<"U+2A26">>>>,
    <<"plustwo", <<"U+2A27">>>>, <<"pm", <<"±">>>>,
    <<"pointint", <<"U+2A15">>>>, <<"popf", <<"U+1D561">>>>,
    <<"pound", <<"£">>>>, <<"pr", <<"U+227A">>>>, <<"prE", <<"U+2AB3">>>>,
    <<"prap", <<"U+2AB7">>>>, <<"prcue", <<"U+227C">>>>,
    <<"pre", <<"U+2AAF">>>>, <<"prec", <<"U+227A">>>>,
    <<"precapprox", <<"U+2AB7">>>>, <<"preccurlyeq", <<"U+227C">>>>,
    <<"preceq", <<"U+2AAF">>>>, <<"precnapprox", <<"U+2AB9">>>>,
    <<"precneqq", <<"U+2AB5">>>>, <<"precnsim", <<"U+22E8">>>>,
    <<"precsim", <<"U+227E">>>>, <<"prime", <<"U+2032">>>>,
    <<"primes", <<"U+2119">>>>, <<"prnE", <<"U+2AB5">>>>,
    <<"prnap", <<"U+2AB9">>>>, <<"prnsim", <<"U+22E8">>>>,
    <<"prod", <<"U+220F">>>>, <<"profalar", <<"U+232E">>>>,
    <<"profline", <<"U+2312">>>>, <<"profsurf", <<"U+2313">>>>,
    <<"prop", <<"U+221D">>>>, <<"propto", <<"U+221D">>>>,
    <<"prsim", <<"U+227E">>>>, <<"prurel", <<"U+22B0">>>>,
    <<"pscr", <<"U+1D4C5">>>>, <<"psi", <<"U+03C8">>>>,
    <<"puncsp", <<"U+2008">>>>, <<"qfr", <<"U+1D52E">>>>,
    <<"qint", <<"U+2A0C">>>>, <<"qopf", <<"U+1D562">>>>,
    <<"qprime", <<"U+2057">>>>, <<"qscr", <<"U+1D4C6">>>>,
    <<"quaternions", <<"U+210D">>>>, <<"quatint", <<"U+2A16">>>>,
    <<"quest", <<"?">>>>, <<"questeq", <<"U+225F">>>>, <<"quot", <<"\"">>>>,
    <<"rAarr", <<"U+21DB">>>>, <<"rArr", <<"U+21D2">>>>,
    <<"rAtail", <<"U+291C">>>>, <<"rBarr", <<"U+290F">>>>,
    <<"rHar", <<"U+2964">>>>, <<"race", <<"U+223D", "U+0331">>>>,
    <<"racute", <<"U+0155">>>>, <<"radic", <<"U+221A">>>>,
    <<"raemptyv", <<"U+29B3">>>>, <<"rang", <<"U+27E9">>>>,
    <<"rangd", <<"U+2992">>>>, <<"range", <<"U+29A5">>>>,
    <<"rangle", <<"U+27E9">>>>, <<"raquo", <<"»">>>>,
    <<"rarr", <<"U+2192">>>>, <<"rarrap", <<"U+2975">>>>,
    <<"rarrb", <<"U+21E5">>>>, <<"rarrbfs", <<"U+2920">>>>,
    <<"rarrc", <<"U+2933">>>>, <<"rarrfs", <<"U+291E">>>>,
    <<"rarrhk", <<"U+21AA">>>>, <<"rarrlp", <<"U+21AC">>>>,
    <<"rarrpl", <<"U+2945">>>>, <<"rarrsim", <<"U+2974">>>>,
    <<"rarrtl", <<"U+21A3">>>>, <<"rarrw", <<"U+219D">>>>,
    <<"ratail", <<"U+291A">>>>, <<"ratio", <<"U+2236">>>>,
    <<"rationals", <<"U+211A">>>>, <<"rbarr", <<"U+290D">>>>,
    <<"rbbrk", <<"U+2773">>>>, <<"rbrace", <<"}">>>>, <<"rbrack", <<"]">>>>,
    <<"rbrke", <<"U+298C">>>>, <<"rbrksld", <<"U+298E">>>>,
    <<"rbrkslu", <<"U+2990">>>>, <<"rcaron", <<"U+0159">>>>,
    <<"rcedil", <<"U+0157">>>>, <<"rceil", <<"U+2309">>>>,
    <<"rcub", <<"}">>>>, <<"rcy", <<"U+0440">>>>, <<"rdca", <<"U+2937">>>>,
    <<"rdldhar", <<"U+2969">>>>, <<"rdquo", <<"U+201D">>>>,
    <<"rdquor", <<"U+201D">>>>, <<"rdsh", <<"U+21B3">>>>,
    <<"real", <<"U+211C">>>>, <<"realine", <<"U+211B">>>>,
    <<"realpart", <<"U+211C">>>>, <<"reals", <<"U+211D">>>>,
    <<"rect", <<"U+25AD">>>>, <<"reg", <<"®">>>>, <<"rfisht", <<"U+297D">>>>,
    <<"rfloor", <<"U+230B">>>>, <<"rfr", <<"U+1D52F">>>>,
    <<"rhard", <<"U+21C1">>>>, <<"rharu", <<"U+21C0">>>>,
    <<"rharul", <<"U+296C">>>>, <<"rho", <<"U+03C1">>>>,
    <<"rhov", <<"U+03F1">>>>, <<"rightarrow", <<"U+2192">>>>,
    <<"rightarrowtail", <<"U+21A3">>>>, <<"rightharpoondown", <<"U+21C1">>>>,
    <<"rightharpoonup", <<"U+21C0">>>>, <<"rightleftarrows", <<"U+21C4">>>>,
    <<"rightleftharpoons", <<"U+21CC">>>>,
    <<"rightrightarrows", <<"U+21C9">>>>,
    <<"rightsquigarrow", <<"U+219D">>>>, <<"rightthreetimes", <<"U+22CC">>>>,
    <<"ring", <<"U+02DA">>>>, <<"risingdotseq", <<"U+2253">>>>,
    <<"rlarr", <<"U+21C4">>>>, <<"rlhar", <<"U+21CC">>>>,
    <<"rlm", <<"U+200F">>>>, <<"rmoust", <<"U+23B1">>>>,
    <<"rmoustache", <<"U+23B1">>>>, <<"rnmid", <<"U+2AEE">>>>,
    <<"roang", <<"U+27ED">>>>, <<"roarr", <<"U+21FE">>>>,
    <<"robrk", <<"U+27E7">>>>, <<"ropar", <<"U+2986">>>>,
    <<"ropf", <<"U+1D563">>>>, <<"roplus", <<"U+2A2E">>>>,
    <<"rotimes", <<"U+2A35">>>>, <<"rpar", <<")">>>>,
    <<"rpargt", <<"U+2994">>>>, <<"rppolint", <<"U+2A12">>>>,
    <<"rrarr", <<"U+21C9">>>>, <<"rsaquo", <<"U+203A">>>>,
    <<"rscr", <<"U+1D4C7">>>>, <<"rsh", <<"U+21B1">>>>, <<"rsqb", <<"]">>>>,
    <<"rsquo", <<"U+2019">>>>, <<"rsquor", <<"U+2019">>>>,
    <<"rthree", <<"U+22CC">>>>, <<"rtimes", <<"U+22CA">>>>,
    <<"rtri", <<"U+25B9">>>>, <<"rtrie", <<"U+22B5">>>>,
    <<"rtrif", <<"U+25B8">>>>, <<"rtriltri", <<"U+29CE">>>>,
    <<"ruluhar", <<"U+2968">>>>, <<"rx", <<"U+211E">>>>,
    <<"sacute", <<"U+015B">>>>, <<"sbquo", <<"U+201A">>>>,
    <<"sc", <<"U+227B">>>>, <<"scE", <<"U+2AB4">>>>,
    <<"scap", <<"U+2AB8">>>>, <<"scaron", <<"U+0161">>>>,
    <<"sccue", <<"U+227D">>>>, <<"sce", <<"U+2AB0">>>>,
    <<"scedil", <<"U+015F">>>>, <<"scirc", <<"U+015D">>>>,
    <<"scnE", <<"U+2AB6">>>>, <<"scnap", <<"U+2ABA">>>>,
    <<"scnsim", <<"U+22E9">>>>, <<"scpolint", <<"U+2A13">>>>,
    <<"scsim", <<"U+227F">>>>, <<"scy", <<"U+0441">>>>,
    <<"sdot", <<"U+22C5">>>>, <<"sdotb", <<"U+22A1">>>>,
    <<"sdote", <<"U+2A66">>>>, <<"seArr", <<"U+21D8">>>>,
    <<"searhk", <<"U+2925">>>>, <<"searr", <<"U+2198">>>>,
    <<"searrow", <<"U+2198">>>>, <<"sect", <<"§">>>>, <<"semi", <<";">>>>,
    <<"seswar", <<"U+2929">>>>, <<"setminus", <<"U+2216">>>>,
    <<"setmn", <<"U+2216">>>>, <<"sext", <<"U+2736">>>>,
    <<"sfr", <<"U+1D530">>>>, <<"sfrown", <<"U+2322">>>>,
    <<"sharp", <<"U+266F">>>>, <<"shchcy", <<"U+0449">>>>,
    <<"shcy", <<"U+0448">>>>, <<"shortmid", <<"U+2223">>>>,
    <<"shortparallel", <<"U+2225">>>>, <<"shy", <<"U+00AD">>>>,
    <<"sigma", <<"U+03C3">>>>, <<"sigmaf", <<"U+03C2">>>>,
    <<"sigmav", <<"U+03C2">>>>, <<"sim", <<"U+223C">>>>,
    <<"simdot", <<"U+2A6A">>>>, <<"sime", <<"U+2243">>>>,
    <<"simeq", <<"U+2243">>>>, <<"simg", <<"U+2A9E">>>>,
    <<"simgE", <<"U+2AA0">>>>, <<"siml", <<"U+2A9D">>>>,
    <<"simlE", <<"U+2A9F">>>>, <<"simne", <<"U+2246">>>>,
    <<"simplus", <<"U+2A24">>>>, <<"simrarr", <<"U+2972">>>>,
    <<"slarr", <<"U+2190">>>>, <<"smallsetminus", <<"U+2216">>>>,
    <<"smashp", <<"U+2A33">>>>, <<"smeparsl", <<"U+29E4">>>>,
    <<"smid", <<"U+2223">>>>, <<"smile", <<"U+2323">>>>,
    <<"smt", <<"U+2AAA">>>>, <<"smte", <<"U+2AAC">>>>,
    <<"smtes", <<"U+2AAC", "U+FE00">>>>, <<"softcy", <<"U+044C">>>>,
    <<"sol", <<"/">>>>, <<"solb", <<"U+29C4">>>>, <<"solbar", <<"U+233F">>>>,
    <<"sopf", <<"U+1D564">>>>, <<"spades", <<"U+2660">>>>,
    <<"spadesuit", <<"U+2660">>>>, <<"spar", <<"U+2225">>>>,
    <<"sqcap", <<"U+2293">>>>, <<"sqcaps", <<"U+2293", "U+FE00">>>>,
    <<"sqcup", <<"U+2294">>>>, <<"sqcups", <<"U+2294", "U+FE00">>>>,
    <<"sqsub", <<"U+228F">>>>, <<"sqsube", <<"U+2291">>>>,
    <<"sqsubset", <<"U+228F">>>>, <<"sqsubseteq", <<"U+2291">>>>,
    <<"sqsup", <<"U+2290">>>>, <<"sqsupe", <<"U+2292">>>>,
    <<"sqsupset", <<"U+2290">>>>, <<"sqsupseteq", <<"U+2292">>>>,
    <<"squ", <<"U+25A1">>>>, <<"square", <<"U+25A1">>>>,
    <<"squarf", <<"U+25AA">>>>, <<"squf", <<"U+25AA">>>>,
    <<"srarr", <<"U+2192">>>>, <<"sscr", <<"U+1D4C8">>>>,
    <<"ssetmn", <<"U+2216">>>>, <<"ssmile", <<"U+2323">>>>,
    <<"sstarf", <<"U+22C6">>>>, <<"star", <<"U+2606">>>>,
    <<"starf", <<"U+2605">>>>, <<"straightepsilon", <<"U+03F5">>>>,
    <<"straightphi", <<"U+03D5">>>>, <<"strns", <<"¯">>>>,
    <<"sub", <<"U+2282">>>>, <<"subE", <<"U+2AC5">>>>,
    <<"subdot", <<"U+2ABD">>>>, <<"sube", <<"U+2286">>>>,
    <<"subedot", <<"U+2AC3">>>>, <<"submult", <<"U+2AC1">>>>,
    <<"subnE", <<"U+2ACB">>>>, <<"subne", <<"U+228A">>>>,
    <<"subplus", <<"U+2ABF">>>>, <<"subrarr", <<"U+2979">>>>,
    <<"subset", <<"U+2282">>>>, <<"subseteq", <<"U+2286">>>>,
    <<"subseteqq", <<"U+2AC5">>>>, <<"subsetneq", <<"U+228A">>>>,
    <<"subsetneqq", <<"U+2ACB">>>>, <<"subsim", <<"U+2AC7">>>>,
    <<"subsub", <<"U+2AD5">>>>, <<"subsup", <<"U+2AD3">>>>,
    <<"succ", <<"U+227B">>>>, <<"succapprox", <<"U+2AB8">>>>,
    <<"succcurlyeq", <<"U+227D">>>>, <<"succeq", <<"U+2AB0">>>>,
    <<"succnapprox", <<"U+2ABA">>>>, <<"succneqq", <<"U+2AB6">>>>,
    <<"succnsim", <<"U+22E9">>>>, <<"succsim", <<"U+227F">>>>,
    <<"sum", <<"U+2211">>>>, <<"sung", <<"U+266A">>>>,
    <<"sup", <<"U+2283">>>>, <<"sup1", <<"¹">>>>, <<"sup2", <<"²">>>>,
    <<"sup3", <<"³">>>>, <<"supE", <<"U+2AC6">>>>,
    <<"supdot", <<"U+2ABE">>>>, <<"supdsub", <<"U+2AD8">>>>,
    <<"supe", <<"U+2287">>>>, <<"supedot", <<"U+2AC4">>>>,
    <<"suphsol", <<"U+27C9">>>>, <<"suphsub", <<"U+2AD7">>>>,
    <<"suplarr", <<"U+297B">>>>, <<"supmult", <<"U+2AC2">>>>,
    <<"supnE", <<"U+2ACC">>>>, <<"supne", <<"U+228B">>>>,
    <<"supplus", <<"U+2AC0">>>>, <<"supset", <<"U+2283">>>>,
    <<"supseteq", <<"U+2287">>>>, <<"supseteqq", <<"U+2AC6">>>>,
    <<"supsetneq", <<"U+228B">>>>, <<"supsetneqq", <<"U+2ACC">>>>,
    <<"supsim", <<"U+2AC8">>>>, <<"supsub", <<"U+2AD4">>>>,
    <<"supsup", <<"U+2AD6">>>>, <<"swArr", <<"U+21D9">>>>,
    <<"swarhk", <<"U+2926">>>>, <<"swarr", <<"U+2199">>>>,
    <<"swarrow", <<"U+2199">>>>, <<"swnwar", <<"U+292A">>>>,
    <<"szlig", <<"ß">>>>, <<"target", <<"U+2316">>>>,
    <<"tau", <<"U+03C4">>>>, <<"tbrk", <<"U+23B4">>>>,
    <<"tcaron", <<"U+0165">>>>, <<"tcedil", <<"U+0163">>>>,
    <<"tcy", <<"U+0442">>>>, <<"tdot", <<"U+20DB">>>>,
    <<"telrec", <<"U+2315">>>>, <<"tfr", <<"U+1D531">>>>,
    <<"there4", <<"U+2234">>>>, <<"therefore", <<"U+2234">>>>,
    <<"theta", <<"U+03B8">>>>, <<"thetasym", <<"U+03D1">>>>,
    <<"thetav", <<"U+03D1">>>>, <<"thickapprox", <<"U+2248">>>>,
    <<"thicksim", <<"U+223C">>>>, <<"thinsp", <<"U+2009">>>>,
    <<"thkap", <<"U+2248">>>>, <<"thksim", <<"U+223C">>>>,
    <<"thorn", <<"þ">>>>, <<"tilde", <<"U+02DC">>>>, <<"times", <<"×">>>>,
    <<"timesb", <<"U+22A0">>>>, <<"timesbar", <<"U+2A31">>>>,
    <<"timesd", <<"U+2A30">>>>, <<"tint", <<"U+222D">>>>,
    <<"toea", <<"U+2928">>>>, <<"top", <<"U+22A4">>>>,
    <<"topbot", <<"U+2336">>>>, <<"topcir", <<"U+2AF1">>>>,
    <<"topf", <<"U+1D565">>>>, <<"topfork", <<"U+2ADA">>>>,
    <<"tosa", <<"U+2929">>>>, <<"tprime", <<"U+2034">>>>,
    <<"trade", <<"U+2122">>>>, <<"triangle", <<"U+25B5">>>>,
    <<"triangledown", <<"U+25BF">>>>, <<"triangleleft", <<"U+25C3">>>>,
    <<"trianglelefteq", <<"U+22B4">>>>, <<"triangleq", <<"U+225C">>>>,
    <<"triangleright", <<"U+25B9">>>>, <<"trianglerighteq", <<"U+22B5">>>>,
    <<"tridot", <<"U+25EC">>>>, <<"trie", <<"U+225C">>>>,
    <<"triminus", <<"U+2A3A">>>>, <<"triplus", <<"U+2A39">>>>,
    <<"trisb", <<"U+29CD">>>>, <<"tritime", <<"U+2A3B">>>>,
    <<"trpezium", <<"U+23E2">>>>, <<"tscr", <<"U+1D4C9">>>>,
    <<"tscy", <<"U+0446">>>>, <<"tshcy", <<"U+045B">>>>,
    <<"tstrok", <<"U+0167">>>>, <<"twixt", <<"U+226C">>>>,
    <<"twoheadleftarrow", <<"U+219E">>>>,
    <<"twoheadrightarrow", <<"U+21A0">>>>, <<"uArr", <<"U+21D1">>>>,
    <<"uHar", <<"U+2963">>>>, <<"uacute", <<"ú">>>>,
    <<"uarr", <<"U+2191">>>>, <<"ubrcy", <<"U+045E">>>>,
    <<"ubreve", <<"U+016D">>>>, <<"ucirc", <<"û">>>>,
    <<"ucy", <<"U+0443">>>>, <<"udarr", <<"U+21C5">>>>,
    <<"udblac", <<"U+0171">>>>, <<"udhar", <<"U+296E">>>>,
    <<"ufisht", <<"U+297E">>>>, <<"ufr", <<"U+1D532">>>>,
    <<"ugrave", <<"ù">>>>, <<"uharl", <<"U+21BF">>>>,
    <<"uharr", <<"U+21BE">>>>, <<"uhblk", <<"U+2580">>>>,
    <<"ulcorn", <<"U+231C">>>>, <<"ulcorner", <<"U+231C">>>>,
    <<"ulcrop", <<"U+230F">>>>, <<"ultri", <<"U+25F8">>>>,
    <<"umacr", <<"U+016B">>>>, <<"uml", <<"¨">>>>, <<"uogon", <<"U+0173">>>>,
    <<"uopf", <<"U+1D566">>>>, <<"uparrow", <<"U+2191">>>>,
    <<"updownarrow", <<"U+2195">>>>, <<"upharpoonleft", <<"U+21BF">>>>,
    <<"upharpoonright", <<"U+21BE">>>>, <<"uplus", <<"U+228E">>>>,
    <<"upsi", <<"U+03C5">>>>, <<"upsih", <<"U+03D2">>>>,
    <<"upsilon", <<"U+03C5">>>>, <<"upuparrows", <<"U+21C8">>>>,
    <<"urcorn", <<"U+231D">>>>, <<"urcorner", <<"U+231D">>>>,
    <<"urcrop", <<"U+230E">>>>, <<"uring", <<"U+016F">>>>,
    <<"urtri", <<"U+25F9">>>>, <<"uscr", <<"U+1D4CA">>>>,
    <<"utdot", <<"U+22F0">>>>, <<"utilde", <<"U+0169">>>>,
    <<"utri", <<"U+25B5">>>>, <<"utrif", <<"U+25B4">>>>,
    <<"uuarr", <<"U+21C8">>>>, <<"uuml", <<"ü">>>>,
    <<"uwangle", <<"U+29A7">>>>, <<"vArr", <<"U+21D5">>>>,
    <<"vBar", <<"U+2AE8">>>>, <<"vBarv", <<"U+2AE9">>>>,
    <<"vDash", <<"U+22A8">>>>, <<"vangrt", <<"U+299C">>>>,
    <<"varepsilon", <<"U+03F5">>>>, <<"varkappa", <<"U+03F0">>>>,
    <<"varnothing", <<"U+2205">>>>, <<"varphi", <<"U+03D5">>>>,
    <<"varpi", <<"U+03D6">>>>, <<"varpropto", <<"U+221D">>>>,
    <<"varr", <<"U+2195">>>>, <<"varrho", <<"U+03F1">>>>,
    <<"varsigma", <<"U+03C2">>>>, <<"varsubsetneq", <<"U+228A", "U+FE00">>>>,
    <<"varsubsetneqq", <<"U+2ACB", "U+FE00">>>>,
    <<"varsupsetneq", <<"U+228B", "U+FE00">>>>,
    <<"varsupsetneqq", <<"U+2ACC", "U+FE00">>>>,
    <<"vartheta", <<"U+03D1">>>>, <<"vartriangleleft", <<"U+22B2">>>>,
    <<"vartriangleright", <<"U+22B3">>>>, <<"vcy", <<"U+0432">>>>,
    <<"vdash", <<"U+22A2">>>>, <<"vee", <<"U+2228">>>>,
    <<"veebar", <<"U+22BB">>>>, <<"veeeq", <<"U+225A">>>>,
    <<"vellip", <<"U+22EE">>>>, <<"verbar", <<"|">>>>, <<"vert", <<"|">>>>,
    <<"vfr", <<"U+1D533">>>>, <<"vltri", <<"U+22B2">>>>,
    <<"vnsub", <<"U+2282", "U+20D2">>>>, <<"vnsup", <<"U+2283", "U+20D2">>>>,
    <<"vopf", <<"U+1D567">>>>, <<"vprop", <<"U+221D">>>>,
    <<"vrtri", <<"U+22B3">>>>, <<"vscr", <<"U+1D4CB">>>>,
    <<"vsubnE", <<"U+2ACB", "U+FE00">>>>,
    <<"vsubne", <<"U+228A", "U+FE00">>>>,
    <<"vsupnE", <<"U+2ACC", "U+FE00">>>>,
    <<"vsupne", <<"U+228B", "U+FE00">>>>, <<"vzigzag", <<"U+299A">>>>,
    <<"wcirc", <<"U+0175">>>>, <<"wedbar", <<"U+2A5F">>>>,
    <<"wedge", <<"U+2227">>>>, <<"wedgeq", <<"U+2259">>>>,
    <<"weierp", <<"U+2118">>>>, <<"wfr", <<"U+1D534">>>>,
    <<"wopf", <<"U+1D568">>>>, <<"wp", <<"U+2118">>>>,
    <<"wr", <<"U+2240">>>>, <<"wreath", <<"U+2240">>>>,
    <<"wscr", <<"U+1D4CC">>>>, <<"xcap", <<"U+22C2">>>>,
    <<"xcirc", <<"U+25EF">>>>, <<"xcup", <<"U+22C3">>>>,
    <<"xdtri", <<"U+25BD">>>>, <<"xfr", <<"U+1D535">>>>,
    <<"xhArr", <<"U+27FA">>>>, <<"xharr", <<"U+27F7">>>>,
    <<"xi", <<"U+03BE">>>>, <<"xlArr", <<"U+27F8">>>>,
    <<"xlarr", <<"U+27F5">>>>, <<"xmap", <<"U+27FC">>>>,
    <<"xnis", <<"U+22FB">>>>, <<"xodot", <<"U+2A00">>>>,
    <<"xopf", <<"U+1D569">>>>, <<"xoplus", <<"U+2A01">>>>,
    <<"xotime", <<"U+2A02">>>>, <<"xrArr", <<"U+27F9">>>>,
    <<"xrarr", <<"U+27F6">>>>, <<"xscr", <<"U+1D4CD">>>>,
    <<"xsqcup", <<"U+2A06">>>>, <<"xuplus", <<"U+2A04">>>>,
    <<"xutri", <<"U+25B3">>>>, <<"xvee", <<"U+22C1">>>>,
    <<"xwedge", <<"U+22C0">>>>, <<"yacute", <<"ý">>>>,
    <<"yacy", <<"U+044F">>>>, <<"ycirc", <<"U+0177">>>>,
    <<"ycy", <<"U+044B">>>>, <<"yen", <<"¥">>>>, <<"yfr", <<"U+1D536">>>>,
    <<"yicy", <<"U+0457">>>>, <<"yopf", <<"U+1D56A">>>>,
    <<"yscr", <<"U+1D4CE">>>>, <<"yucy", <<"U+044E">>>>, <<"yuml", <<"ÿ">>>>,
    <<"zacute", <<"U+017A">>>>, <<"zcaron", <<"U+017E">>>>,
    <<"zcy", <<"U+0437">>>>, <<"zdot", <<"U+017C">>>>,
    <<"zeetrf", <<"U+2128">>>>, <<"zeta", <<"U+03B6">>>>,
    <<"zfr", <<"U+1D537">>>>, <<"zhcy", <<"U+0436">>>>,
    <<"zigrarr", <<"U+21DD">>>>, <<"zopf", <<"U+1D56B">>>>,
    <<"zscr", <<"U+1D4CF">>>>, <<"zwj", <<"U+200D">>>>,
    <<"zwnj", <<"U+200C">>>> }

\* the value of a hexadecimal digit
HexValue(c) ==
    IF c \in Digits THEN Code(c) - 48
    ELSE IF c \in CodePoints(65..70) THEN Code(c) - 55
    ELSE Code(c) - 87

\* the value of up to seven digits
RECURSIVE Small(_, _)
Small(digits, base) ==
    IF digits = <<>> THEN 0
    ELSE Small(SubSeq(digits, 1, Len(digits) - 1), base) * base
         + HexValue(digits[Len(digits)])

\* the value of the digits, every value above U+10FFFF taken for 1114112:
\* chr raises for each of them and the reference becomes U+FFFD
Value(digits, base) ==
    LET Significant(d) == IF Len(d) > 7 THEN 1114112 ELSE Min(1114112, Small(d, base))
    IN  Significant(Sub(digits, RunEnd(digits, 1, {"0"}), Len(digits)))

\* int(digits, base); -1: int raises ValueError, the decimal numeral has
\* more than default_max_str_digits digits
Number(digits, base) ==
    IF base = 10 /\ Len(digits) > default_max_str_digits THEN -1
    ELSE Value(digits, base)

\* handle_charref: the character of a numeric reference.  Below 256 the
\* number is read as a byte of windows-1252; chr gives the character of any
\* other code point, and U+FFFD stands for a number chr raises on.
CharOfRef(n) ==
    IF n \in 128..159 THEN <<Windows1252[n - 127]>>
    ELSE IF n < 1114112 THEN <<chr(n)>>
    ELSE <<"U+FFFD">>

\* handle_entityref: the text of a named reference; "&name" if HTML5 does
\* not know the name
EntityText(name) ==
    LET Text(entries) ==
            IF entries = {} THEN <<"&">> \o name
            ELSE (CHOOSE e \in entries : TRUE)[2]
        Named(key) == Text({e \in HTML_ENTITY_TO_CHARACTER : e[1] = key})
    IN  Named(Str(name))

\* what a parse step gives: p, where the parser goes on; st; stop, "no",
\* "incomplete" (the -1 of a parse_* method) or "break" (goahead leaves its
\* loop, or an exception is raised: st.raised)
Parsed(p, st, stop) == [p |-> p, st |-> st, stop |-> stop]

\* an exception of that class leaves the parser
Raised(p, st, exception) == Parsed(p, [st EXCEPT !.raised = exception], "break")

\* lines 187-193 of goahead: where the data of an incomplete construct ends
IncompleteEnd(s, p) ==
    LET End(gt, lt) == IF gt > 0 THEN gt + 1 ELSE IF lt > 0 THEN lt ELSE p + 1
    IN  End(Find(s, ">", p + 1), Find(s, "<", p + 1))

\* where a match of --\s*> at p ends, 0 if there is none
CommentCloseAt(s, p) ==
    LET Close(q) ==
            IF At(s, p) = "-" /\ At(s, p + 1) = "-" /\ At(s, q) = ">" THEN q + 1
            ELSE 0
    IN  Close(RunEnd(s, p + 2, Whitespace))

\* commentclose.search(rawdata, p-1): where the first match starts, 0 if none
SearchCommentClose(s, p) ==
    LET Found(q) == IF q > Len(s) THEN 0 ELSE q
    IN  Found(Search(s, p, LAMBDA q : CommentCloseAt(s, q)))

\* where a match of ]\s*]\s*> (two) or ]\s*> at p ends, 0 if there is none
MarkedCloseAt(s, p, two) ==
    LET Close(q, r) ==
            IF At(s, p) = "]" /\ (two => At(s, q) = "]") /\ At(s, r) = ">"
            THEN r + 1
            ELSE 0
        Second(q) == Close(q, IF two THEN RunEnd(s, q + 1, Whitespace) ELSE q)
    IN  Second(RunEnd(s, p + 1, Whitespace))

\* the search for the end of a marked section: where the first match
\* starts, 0 if none
SearchMarkedClose(s, p, two) ==
    LET Found(q) == IF q > Len(s) THEN 0 ELSE q
    IN  Found(Search(s, p, LAMBDA q : MarkedCloseAt(s, q, two)))

\* the character c matches the lower-case letter of a tag name under re.I:
\* the letter, its capital, and for "i" and "s" the letters U+0130, U+0131
\* and U+017F
IgnoreCaseMatch(c, letter) ==
    \/ c = letter
    \/ c \in UpperLetters /\ LowerChar(c) = <<letter>>
    \/ letter = "i" /\ c \in {"U+0130", "U+0131"}
    \/ letter = "s" /\ c = "U+017F"

\* where a match of </\s*name\s*>, case ignored, at p ends, 0 if there is none
CdataCloseAt(s, p, name) ==
    LET Close(q, r) ==
            IF /\ At(s, p) = "<" /\ At(s, p + 1) = "/"
               /\ q + Len(name) - 1 <= Len(s)
               /\ \A k \in 1..Len(name) : IgnoreCaseMatch(s[q + k - 1], name[k])
               /\ At(s, r) = ">"
            THEN r + 1
            ELSE 0
        Name(q) == Close(q, RunEnd(s, q + Len(name), Whitespace))
    IN  Name(RunEnd(s, p + 2, Whitespace))

\* the search for the end tag of a script or style element
SearchCdataClose(s, p, name) ==
    LET Found(q) == IF q > Len(s) THEN 0 ELSE q
    IN  Found(Search(s, p, LAMBDA q : CdataCloseAt(s, q, name)))

\* interesting_normal.search: the first "<" or "&" at or after p, Len(s) + 1
\* if there is none
NextInteresting(s, p) == RunUntil(s, p, {"<", "&"})

\* parse_starttag: unescape raises ValueError on an attribute value, or the
\* tag is handled
parse_starttag(s, p, st) ==
    LET Tag(endpos, tag, end) ==
            IF end = <<"/", ">">>
            THEN Parsed(endpos, handle_startendtag(st, tag), "no")
            ELSE IF end = <<">">>
            THEN Parsed(endpos,
                        [handle_starttag(st, tag) EXCEPT
                            !.cdata_elem = IF tag \in CDATA_CONTENT_ELEMENTS
                                           THEN tag ELSE <<>>],
                        "no")
            ELSE Parsed(endpos, handle_data(st, Sub(s, p, endpos - 1)), "no")
        Attrs(endpos, tag, first, k) ==
            IF endpos = 0 THEN Parsed(p, st, "incomplete")
            ELSE IF AttrsRaise(s, first, endpos) THEN Raised(p, st, "ValueError")
            ELSE Tag(endpos, tag, Strip(Sub(s, k, endpos - 1)))
        Named(endpos, name_end, first) ==
            Attrs(endpos, Lower(Sub(s, p + 1, name_end - 1)), first,
                  AttrsEnd(s, first, endpos))
        Name(endpos, name_end) ==
            Named(endpos, name_end, SkipSpaceSlash(s, name_end))
    IN  Name(check_for_whole_start_tag(s, p), RunUntil(s, p + 2, TagNameEnd))

\* endtagfind.match for a "</" at p: where the name ends, 0 if no match
EndTagFind(s, p) ==
    LET Match(q, r, after) == IF IsLetter(At(s, q)) /\ At(s, after) = ">" THEN r ELSE 0
        Name(q, r) == Match(q, r, RunEnd(s, r, Whitespace))
        Space(q) == Name(q, RunEnd(s, q + 1, EndTagNameChars))
    IN  Space(RunEnd(s, p + 2, Whitespace))

\* parse_endtag
parse_endtag(s, p, st) ==
    LET EndTag(gt, r, elem) ==
            IF gt = 0 THEN Parsed(p, st, "incomplete")
            ELSE IF r = 0
            THEN IF st.cdata_elem # <<>>
                 THEN Parsed(gt + 1, handle_data(st, Sub(s, p, gt)), "no")
                 ELSE IF IsLetter(At(s, p + 2))
                 THEN Parsed(gt + 1,
                             handle_endtag(st,
                                 Lower(Sub(s, p + 2,
                                           RunUntil(s, p + 3, TagNameEnd) - 1))),
                             "no")
                 ELSE IF At(s, p + 2) = ">" THEN Parsed(p + 3, st, "no")
                 ELSE Parsed(gt + 1, HandleOther(st, Sub(s, p + 2, gt - 1), "other"),
                             "no")
            ELSE IF st.cdata_elem # <<>> /\ elem # st.cdata_elem
            THEN Parsed(gt + 1, handle_data(st, Sub(s, p, gt)), "no")
            ELSE Parsed(gt + 1, [handle_endtag(st, elem) EXCEPT !.cdata_elem = <<>>],
                        "no")
        Found(gt, r) ==
            EndTag(gt, r, Lower(Sub(s, RunEnd(s, p + 2, Whitespace), r - 1)))
    IN  Found(Find(s, ">", p + 2), EndTagFind(s, p))

\* parse_comment
parse_comment(s, p, st) ==
    LET Comment(m) ==
            IF m = 0 THEN Parsed(p, st, "incomplete")
            ELSE Parsed(CommentCloseAt(s, m),
                        HandleOther(st, Sub(s, p + 4, m - 1), "other"), "no")
    IN  Comment(SearchCommentClose(s, p + 4))

\* parse_bogus_comment, and parse_pi, which ends at the first ">" as well
parse_bogus_comment(s, p, st) ==
    LET Bogus(gt) ==
            IF gt = 0 THEN Parsed(p, st, "incomplete")
            ELSE Parsed(gt + 1, HandleOther(st, Sub(s, p + 2, gt - 1), "other"), "no")
    IN  Bogus(Find(s, ">", p + 2))

\* the keywords of a marked section that ends in ]]>, and in ]>
MarkedSectionNames == {"temp", "cdata", "ignore", "include", "rcdata"}
MsMarkedSectionNames == {"if", "else", "endif"}

\* parse_marked_section with unknown_decl: a section that starts with
\* "CDATA[" is a CData string, any other a Declaration; a "<![" that no
\* keyword follows makes the parser raise AssertionError, which rejects the
\* markup
parse_marked_section(s, p, st) ==
    LET Section(after, name, two, m, data) ==
            IF p + 3 = Len(s) + 1 THEN Parsed(p, st, "incomplete")
            ELSE IF ~IsLetter(At(s, p + 3))
            THEN Raised(p, st, "ParserRejectedMarkup")
            ELSE IF after = Len(s) + 1 THEN Parsed(p, st, "incomplete")
            ELSE IF name \notin MarkedSectionNames \cup MsMarkedSectionNames
            THEN Raised(p, st, "ParserRejectedMarkup")
            ELSE IF m = 0 THEN Parsed(p, st, "incomplete")
            ELSE IF Lower(Sub(data, 1, 6)) = <<"c", "d", "a", "t", "a", "[">>
            THEN Parsed(MarkedCloseAt(s, m, two),
                        HandleOther(st, Sub(data, 7, Len(data)), "cdata"), "no")
            ELSE Parsed(MarkedCloseAt(s, m, two), HandleOther(st, data, "other"),
                        "no")
        Closed(after, name, two, m) == Section(after, name, two, m, Sub(s, p + 3, m - 1))
        Keyword(after, name, two) ==
            Closed(after, name, two, SearchMarkedClose(s, p + 3, two))
        Named(after, name) == Keyword(after, name, name \in MarkedSectionNames)
        Scanned(name_end) ==
            Named(RunEnd(s, name_end, Whitespace), Str(Lower(Sub(s, p + 3, name_end - 1))))
    IN  Scanned(RunEnd(s, p + 4, DeclNameChars))

\* parse_html_declaration
parse_html_declaration(s, p, st) ==
    LET Doctype(gt) ==
            IF gt = 0 THEN Parsed(p, st, "incomplete")
            ELSE Parsed(gt + 1, HandleOther(st, Sub(s, p + 10, gt - 1), "other"), "no")
    IN  IF At(s, p + 2) = "[" THEN parse_marked_section(s, p, st)
        ELSE IF Lower(Sub(s, p, p + 8)) = <<"<", "!", "d", "o", "c", "t", "y", "p", "e">>
        THEN Doctype(Find(s, ">", p + 9))
        ELSE parse_bogus_comment(s, p, st)

\* lines 199-213 of goahead: a numeric character reference,
\* &#(?:[0-9]+|[xX][0-9a-fA-F]+)[^0-9a-fA-F], or "&#" taken as data;
\* handle_charref raises the ValueError of int
ParseCharRef(s, p, st) ==
    LET Ref(last, n) ==
            IF n < 0 THEN Raised(p, st, "ValueError")
            ELSE Parsed(IF At(s, last) = ";" THEN last + 1 ELSE last,
                        handle_data(st, CharOfRef(n)), "no")
        CharRef(hexa, first, last) ==
            IF last > first /\ At(s, last) # "" /\ At(s, last) \notin HexDigits
            THEN Ref(last, Number(Sub(s, first, last - 1), IF hexa THEN 16 ELSE 10))
            ELSE IF Find(s, ";", p) > 0
            THEN Parsed(p + 2, handle_data(st, <<"&", "#">>), "break")
            ELSE Parsed(p, st, "break")
        Run(hexa, first) ==
            CharRef(hexa, first, RunEnd(s, first, IF hexa THEN HexDigits ELSE Digits))
        Base(hexa) == Run(hexa, IF hexa THEN p + 3 ELSE p + 2)
    IN  Base(At(s, p + 2) \in {"x", "X"})

\* the last "-" or "." of s[from-1:], 0 if there is none
LastDashOrDot(s, from) ==
    LET Last(k) == IF k < from THEN 0 ELSE k
    IN  Last(RunStart(s, Len(s), Letters \cup Digits))

\* lines 214-240 of goahead: a named reference,
\* &([a-zA-Z][-.a-zA-Z0-9]*)[^a-zA-Z0-9], or "&" taken as data.  The name
\* ends before the first character outside [-.a-zA-Z0-9]; when the text
\* ends first, before the last "-" or "." of the name.
ParseEntityRef(s, p, st, end) ==
    LET EntityRef(name_end) ==
            IF IsLetter(At(s, p + 1))
            THEN IF name_end > 0
                 THEN Parsed(IF At(s, name_end) = ";" THEN name_end + 1 ELSE name_end,
                             handle_data(st, EntityText(Sub(s, p + 1, name_end - 1))),
                             "no")
                 ELSE IF end /\ p + 1 = Len(s) THEN Parsed(p + 1, st, "break")
                 ELSE Parsed(p, st, "break")
            ELSE IF p + 1 <= Len(s) THEN Parsed(p + 1, handle_data(st, <<"&">>), "no")
            ELSE Parsed(p, st, "break")
        Name(run) ==
            EntityRef(IF run <= Len(s) THEN run ELSE LastDashOrDot(s, p + 2))
    IN  Name(RunEnd(s, p + 2, EntityNameChars))

\* lines 168-198 of goahead: the markup that opens with the "<" at p
ParseMarkup(s, p, st) ==
    IF IsLetter(At(s, p + 1)) THEN parse_starttag(s, p, st)
    ELSE IF At(s, p + 1) = "/" THEN parse_endtag(s, p, st)
    ELSE IF Sub(s, p, p + 3) = <<"<", "!", "-", "-">> THEN parse_comment(s, p, st)
    ELSE IF At(s, p + 1) = "?" THEN parse_bogus_comment(s, p, st)
    ELSE IF At(s, p + 1) = "!" THEN parse_html_declaration(s, p, st)
    ELSE IF p + 1 <= Len(s) THEN Parsed(p + 1, handle_data(st, <<"<">>), "no")
    ELSE Parsed(p, st, "break")

\* one turn of the loop of goahead at the "<" or "&" at p
Step(s, p, st, end) ==
    LET Markup(r) ==
            IF r.stop = "incomplete"
            THEN IF end
                 THEN Parsed(IncompleteEnd(s, p),
                             handle_data(st, Sub(s, p, IncompleteEnd(s, p) - 1)),
                             "no")
                 ELSE Parsed(p, st, "break")
            ELSE r
    IN  IF At(s, p) = "<" THEN Markup(ParseMarkup(s, p, st))
        ELSE IF At(s, p + 1) = "#" THEN ParseCharRef(s, p, st)
        ELSE ParseEntityRef(s, p, st, end)

\* where the loop of goahead looks next from p on: at the next "<" or "&",
\* inside a CDATA element at the next end tag of the element (0 if none)
Interesting(s, p, st) ==
    IF st.cdata_elem # <<>> THEN SearchCdataClose(s, p, st.cdata_elem)
    ELSE NextInteresting(s, p)

\* the text before j is handled as data
DataBefore(s, p, st, j) ==
    IF p < j THEN handle_data(st, Sub(s, p, j - 1)) ELSE st

RECURSIVE goahead(_, _, _, _)

\* the loop of goahead goes on after a turn that has not left it
Turn(s, r, end) == IF r.stop = "break" THEN r ELSE goahead(s, r.p, r.st, end)

\* the loop of goahead at p, the next place to look at being j
Look(s, p, st, end, j) ==
    IF j = 0 THEN Parsed(p, st, "break")
    ELSE IF j > Len(s) THEN Parsed(j, DataBefore(s, p, st, j), "no")
    ELSE Turn(s, Step(s, j, DataBefore(s, p, st, j), end), end)

\* goahead(end) from position p on
goahead(s, p, st, end) ==
    IF p > Len(s) THEN Parsed(p, st, "no")
    ELSE Look(s, p, st, end, Interesting(s, p, st))

\* parser.feed(text): goahead(False)
feed(text) == goahead(text, 1, NewSoup, FALSE)

\* parser.close(): goahead(True), unless feed has raised
close(text, fed) ==
    IF fed.st.raised # "" THEN fed ELSE goahead(text, fed.p, fed.st, TRUE)

\* what is left of the text is taken as data (lines 244-249 of goahead),
\* endData(); an exception raised on the way ends it
Rest(text, closed) ==
    IF closed.st.raised # "" THEN closed.st
    ELSE IF closed.p <= Len(text) /\ closed.st.cdata_elem = <<>>
    THEN endData(handle_data(closed.st, Sub(text, closed.p, Len(text))), "text")
    ELSE endData(closed.st, "text")

\* BeautifulSoup(text, 'html.parser'): feed(), close()
BeautifulSoup(text) == Rest(text, close(text, feed(text)))

\* what stands for the text when the parser rejects the markup
\* (bs4.exceptions.ParserRejectedMarkup is raised)
ParserRejectedMarkup == <<"ParserRejectedMarkup">>

\* what stands for the text when a numeric reference of more than
\* default_max_str_digits digits makes int raise ValueError
DigitLimitExceeded == <<"ValueError">>

\* remove_html_tags(text)
remove_html_tags(text) ==
    LET get_text(soup) ==
            IF soup.raised = "ParserRejectedMarkup" THEN ParserRejectedMarkup
            ELSE IF soup.raised = "ValueError" THEN DigitLimitExceeded
            ELSE soup.out
    IN  get_text(BeautifulSoup(text))

\* a value that is not a str: NaN, a number, a list, None
NotStr == <<"not a str">>

\* str.split(): the runs of characters that are no white space, from p on
RECURSIVE Words(_, _)
Words(s, p) ==
    LET Word(q, e) ==
            IF q > Len(s) THEN <<>> ELSE <<SubSeq(s, q, e)>> \o Words(s, e + 1)
        From(q) == Word(q, NonSpaceRunEnd(s, q))
    IN  From(RunEnd(s, p, Whitespace))

\* CONTRACTIONS2 of the Treebank tokenizer of nltk that need no apostrophe:
\* (can)(not), (gim)(me), (gon)(na), (got)(ta), (lem)(me), (wan)(na),
\* as <<word, length of the first part>>
Contractions ==
    { <<Chars("cannot"), 3>>, <<Chars("gimme"), 3>>, <<Chars("gonna"), 3>>,
      <<Chars("gotta"), 3>>, <<Chars("lemme"), 3>>, <<Chars("wanna"), 3>> }

\* word_tokenize(text) of a text of word characters and white space: the
\* words of the text, a contraction (case ignored) as its two parts
RECURSIVE TokensOf(_)
TokensOf(words) ==
    LET Parts(word, found) ==
            IF found = {} THEN <<word>>
            ELSE <<SubSeq(word, 1, 3), SubSeq(word, 4, Len(word))>>
        Token(word) ==
            Parts(word,
                  {c \in Contractions :
                      /\ Len(c[1]) = Len(word)
                      /\ \A k \in 1..Len(word) : IgnoreCaseMatch(word[k], c[1][k])})
    IN  IF words = <<>> THEN <<>>
        ELSE Token(Head(words)) \o TokensOf(Tail(words))

word_tokenize(text) == TokensOf(Words(text, 1))

\* the nouns of WordNet among the words of the texts of this module that
\* are not their own lemma, as <<word, lemma>>
WordNetLemmas ==
    { <<"dogs", "dog">>, <<"churches", "church">>, <<"aardwolves", "aardwolf">>,
      <<"abaci", "abacus">> }

\* lemmatizer.lemmatize(word): the shortest form of the noun WordNet knows,
\* the word itself if it knows none
lemmatize(word) ==
    LET Lemma(entries) ==
            IF entries = {} THEN word
            ELSE Chars((CHOOSE e \in entries : TRUE)[2])
    IN  Lemma({e \in WordNetLemmas : Chars(e[1]) = word})

\* tokenize_and_lemmatize(text); the tokenizer's models and WordNet are
\* found (lines 14-25 fetch them)
tokenize_and_lemmatize(text) ==
    LET Lemmas(tokens) == [k \in 1..Len(tokens) |-> lemmatize(tokens[k])]
    IN  Join(<<" ">>, Lemmas(word_tokenize(text)))

\* preprocess_text(text, apply_lemmatization); ParserRejectedMarkup or
\* DigitLimitExceeded stands for the exception remove_html_tags raises
preprocess_text(text, apply_lemmatization) ==
    LET Lemmatized(punctuated) ==
            IF apply_lemmatization THEN tokenize_and_lemmatize(punctuated)
            ELSE punctuated
        Cleaned(stripped) ==
            IF stripped \in {ParserRejectedMarkup, DigitLimitExceeded} THEN stripped
            ELSE Strip(Lemmatized(remove_punctuation(stripped)))
    IN  IF text = NotStr THEN <<>>
        ELSE Cleaned(remove_html_tags(remove_urls(Lower(text))))


-----------------------------------------------------------------------------
(* utils/clean.py: ingestion.  An uploaded file is [name, content]; content *)
(* is what the readers make of the file's bytes:                           *)
(*   utf8 - file_content.decode("utf-8") raises nothing;                   *)
(*   preview - what the reader of the preview (app.py lines 114-124)       *)
(*          raises, as the text of the exception, "" if nothing: the JSON  *)
(*          reader catches JSONDecodeError only;                           *)
(*   txt  - lines: the lines iterating the StringIO yields;                *)
(*   json - valid: json.load raises no JSONDecodeError; other: the class   *)
(*          of the exception it raises instead ("RecursionError" on deep   *)
(*          nesting, "ValueError" on an integer of more than 4300 digits), *)
(*          "" if none; list: the top-level value is a list; items: its    *)
(*          elements, each [dict, has, str, s]: whether it is a dict, has  *)
(*          key 'feedback', that value is a str, the str;                  *)
(*   csv  - valid: pd.read_csv of the whole file succeeds; columns:        *)
(*          df.columns; cells: the feedback_text column, each [nan, s]:    *)
(*          NaN, or the cell's text (in a table without that column: a     *)
(*          column the code never reads).                                  *)

\* what raising the exception of class cls with text msg leaves
Raises(cls, msg) == [ok |-> FALSE, value |-> <<>>, error |-> msg, exception |-> cls]

\* ingest_and_clean_data raises ValueError(msg...)
Error(msg) == Raises("ValueError", msg)

\* ingest_and_clean_data returns value
Ok(value) == [ok |-> TRUE, value |-> value, error |-> "", exception |-> ""]

\* line 126: BeautifulSoup raises ParserRejectedMarkup inside preprocess_text,
\* outside every try block of ingest_and_clean_data
Rejected ==
    Raises("ParserRejectedMarkup", "The markup you provided was rejected by the parser.")

\* the text of the ValueError of int() on more than 4300 digits
DigitLimitError == "Exceeds the limit (4300 digits) for integer string conversion"

\* line 126: int() raises ValueError inside preprocess_text, outside every
\* try block of ingest_and_clean_data
DigitLimit == Raises("ValueError", DigitLimitError)

\* app.py lines 115, 118, 127: file_content.decode("utf-8") raises
\* UnicodeDecodeError, a ValueError
DecodeError == Raises("UnicodeDecodeError", "'utf-8' codec can't decode")

\* str.split(sep)[-1] of a token sequence
LastPiece(s, sep) == Sub(s, RunStart(s, Len(s), Range(s) \ {sep}) + 1, Len(s))

\* uploaded_file.name.split('.')[-1].lower()
FileTypeOf(name) == Lower(LastPiece(name, "."))

\* df['feedback_text'].astype(str).tolist(): NaN becomes the text "nan"
CellToStr(cell) == IF cell.nan THEN <<"n", "a", "n">> ELSE cell.s

\* item.get('feedback', '')
JsonItemFeedback(item) ==
    IF ~item.has THEN <<>> ELSE IF item.str THEN item.s ELSE NotStr

\* feedback_texts that reads a table without the column as a table of no rows
feedback_texts_empty_without_column(content, type) ==
    IF type = <<"c", "s", "v">> THEN
        IF ~content.valid THEN Error("Error reading CSV file")
        ELSE IF <<"feedback_text">> \notin content.columns
        THEN Ok(<<>>)
        ELSE Ok([k \in 1..Len(content.cells) |-> CellToStr(content.cells[k])])
    ELSE IF type = <<"j", "s", "o", "n">> THEN
        IF ~content.valid THEN Error("Invalid JSON file format.")
        ELSE IF content.other # "" \/ ~content.list
        THEN Error("Error reading JSON file")
        ELSE LET dicts == SelectSeq(content.items, LAMBDA it : it.dict)
             IN  Ok([k \in 1..Len(dicts) |-> JsonItemFeedback(dicts[k])])
    ELSE IF type = <<"t", "x", "t">> THEN
        LET kept == SelectSeq(content.lines, LAMBDA l : Strip(l) # <<>>)
        IN  Ok([k \in 1..Len(kept) |-> Strip(kept[k])])
    ELSE Error("Unsupported file type")

\* lines 91-121: feedback_texts as the reader of the file's type leaves it,
\* or the ValueError raised
feedback_texts(content, type) ==
    IF type = <<"c", "s", "v">> THEN
        IF ~content.valid THEN Error("Error reading CSV file")
        ELSE IF <<"feedback_text">> \notin content.columns
        THEN Error("Error reading CSV file")
        ELSE Ok([k \in 1..Len(content.cells) |-> CellToStr(content.cells[k])])
    ELSE IF type = <<"j", "s", "o", "n">> THEN
        IF ~content.valid THEN Error("Invalid JSON file format.")
        ELSE IF content.other # "" \/ ~content.list
        THEN Error("Error reading JSON file")
        ELSE LET dicts == SelectSeq(content.items, LAMBDA it : it.dict)
             IN  Ok([k \in 1..Len(dicts) |-> JsonItemFeedback(dicts[k])])
    ELSE IF type = <<"t", "x", "t">> THEN
        LET kept == SelectSeq(content.lines, LAMBDA l : Strip(l) # <<>>)
        IN  Ok([k \in 1..Len(kept) |-> Strip(kept[k])])
    ELSE Error("Unsupported file type")

\* lines 123-126: each text passed through preprocess_text, which gives
\* ParserRejectedMarkup or DigitLimitExceeded for a text it raises on; or
\* the ValueError raised before
CleanedTexts(texts, apply_lemmatization) ==
    IF texts.ok
    THEN Ok([k \in 1..Len(texts.value) |->
                preprocess_text(texts.value[k], apply_lemmatization)])
    ELSE texts

\* lines 91-126: cleaned_feedback before the filter of line 128
ExtractCleaned(content, type, apply_lemmatization) ==
    CleanedTexts(feedback_texts(content, type), apply_lemmatization)

\* what the loop of lines 125-126 raises on the cleaned texts: the exception
\* of the first text preprocess_text raises on; Ok(cleaned) if there is none
FirstRaised(cleaned) ==
    LET Raising == {k \in 1..Len(cleaned) :
                       cleaned[k] \in {ParserRejectedMarkup, DigitLimitExceeded}}
        First(k) == IF cleaned[k] = ParserRejectedMarkup THEN Rejected ELSE DigitLimit
    IN  IF Raising = {} THEN Ok(cleaned)
        ELSE First(CHOOSE k \in Raising : \A m \in Raising : k <= m)

\* ingest_and_clean_data without the filter of line 128
ingest_and_clean_data_keeps_empty(content, type, apply_lemmatization) ==
    LET Returned(cleaned) ==
            IF cleaned = <<>>
            THEN Error("No valid feedback text found after cleaning.")
            ELSE Ok(cleaned)
        Filtered(extracted) ==
            IF ~extracted.ok THEN extracted
            ELSE IF ~FirstRaised(extracted.value).ok THEN FirstRaised(extracted.value)
            ELSE Returned(extracted.value)
    IN  Filtered(ExtractCleaned(content, type, apply_lemmatization))

\* ingest_and_clean_data(file_object, file_type, apply_lemmatization)
ingest_and_clean_data(content, type, apply_lemmatization) ==
    LET Returned(cleaned) ==
            IF cleaned = <<>>
            THEN Error("No valid feedback text found after cleaning.")
            ELSE Ok(cleaned)
        Filtered(extracted) ==
            IF ~extracted.ok THEN extracted
            ELSE IF ~FirstRaised(extracted.value).ok THEN FirstRaised(extracted.value)
            ELSE Returned(SelectSeq(extracted.value, LAMBDA f : f # <<>>))
    IN  Filtered(ExtractCleaned(content, type, apply_lemmatization))

\* app.py lines 111-127: the bytes are decoded, the preview is read, and
\* ingest_and_clean_data is called with the value of the checkbox; what the
\* try block leaves: the cleaned feedback, or the exception raised
TryIngest(content, type, apply_lemmatization) ==
    IF ~content.utf8 THEN DecodeError
    ELSE IF type = <<"c", "s", "v">> /\ content.preview # ""
    THEN Raises("ValueError", content.preview)
    ELSE IF type = <<"j", "s", "o", "n">> /\ content.preview # ""
    THEN Raises(content.other, content.preview)
    ELSE ingest_and_clean_data(content, type, apply_lemmatization)

NoContent == [utf8 |-> TRUE, preview |-> "", lines |-> <<>>, valid |-> FALSE,
              other |-> "", list |-> FALSE, items |-> <<>>, columns |-> {},
              cells |-> <<>>]

\* bytes that are no UTF-8
Undecodable(name) == [name |-> name, content |-> [NoContent EXCEPT !.utf8 = FALSE]]

TxtFile(name, lines) == [name |-> name, content |-> [NoContent EXCEPT !.lines = lines]]

JsonFile(name, valid, list, items) ==
    [name |-> name,
     content |-> [NoContent EXCEPT !.valid = valid, !.list = list, !.items = items]]

\* a JSON text of a list on which json.load raises an exception of class
\* cls that is no JSONDecodeError; json.loads of the preview raises it with
\* the text `preview`, or, if that is "", raises nothing
JsonFileRaising(name, cls, preview) ==
    [name |-> name,
     content |-> [NoContent EXCEPT !.valid = TRUE, !.other = cls, !.list = TRUE,
                                   !.preview = preview]]

CsvFile(name, valid, columns, cells) ==
    [name |-> name,
     content |-> [NoContent EXCEPT !.valid = valid, !.columns = columns,
                                   !.cells = cells]]

\* a CSV text pd.read_csv raises on, in the preview of the first five rows
\* already (with the text `preview`) or, if that is "", past them
CsvFileRaising(name, preview) ==
    [name |-> name, content |-> [NoContent EXCEPT !.preview = preview]]

JsonDict(s) == [dict |-> TRUE, has |-> TRUE, str |-> TRUE, s |-> s]
JsonDictNoFeedback == [dict |-> TRUE, has |-> FALSE, str |-> FALSE, s |-> <<>>]
JsonScalar == [dict |-> FALSE, has |-> FALSE, str |-> FALSE, s |-> <<>>]
\* {"feedback": 5}: the value of the field is no str
JsonDictNonStr == [dict |-> TRUE, has |-> TRUE, str |-> FALSE, s |-> <<>>]

\* "Good!\n", "\n", "...\n", "  late\n": two records survive
ReviewsTxt ==
    TxtFile(<<"reviews", ".", "t","x","t">>,
            << <<"G","o","o","d","!","\n">>, <<"\n">>, <<".",".",".","\n">>,
               <<" "," ","l","a","t","e","\n">> >>)

\* [{"feedback": "OK :)"}, 7, {"id": 1}]: one record survives
DataJson ==
    JsonFile(<<"data", ".", "J","S","O","N">>, TRUE, TRUE,
             << JsonDict(<<"O","K"," ",":",")">>), JsonScalar, JsonDictNoFeedback >>)

\* {"feedback": "ok"}: the top-level value is no list
ObjectJson == JsonFile(<<"object", ".", "j","s","o","n">>, TRUE, FALSE, <<>>)

\* a table with columns id, text and no column feedback_text
NoColumnCsv ==
    CsvFile(<<"table", ".", "c","s","v">>, TRUE, {<<"id">>, <<"text">>}, <<>>)

\* "a\n", "b\n", "c\n": three records
ThreeLinesTxt ==
    TxtFile(<<"three", ".", "t","x","t">>,
            << <<"a","\n">>, <<"b","\n">>, <<"c","\n">> >>)

\* "ok\n" under the name of ReviewsTxt: one record
RevisedReviewsTxt ==
    TxtFile(<<"reviews", ".", "t","x","t">>, << <<"o","k","\n">> >>)

\* "?!\n", "...\n": no record survives the cleaning
PunctuationTxt ==
    TxtFile(<<"marks", ".", "t","x","t">>,
            << <<"?","!","\n">>, <<".",".",".","\n">> >>)

\* the files a user of the session uploads
SessionFiles == {ReviewsTxt, RevisedReviewsTxt, DataJson, ObjectJson,
                 PunctuationTxt}

\* the files the batch analysis is run on
BatchFiles == {ReviewsTxt, DataJson, ThreeLinesTxt}

\* the sequences over S of length 0..n
SeqsUpTo(S, n) == UNION {[1..k -> S] : k \in 0..n}

\* a text the parser rejects: "<![>"
RejectedText == <<"<", "!", "[", ">">>

\* a text int() raises on: "&#1...1;" with one digit more than the limit
DigitLimitText ==
    <<"&", "#">> \o [k \in 1..(default_max_str_digits + 1) |-> "1"] \o <<";">>

\* a start tag name with a NUL in it, which ends no tag: "<a\x00b>"
NulTagText == <<"<", "a", Nul, "b", ">">>

\* raw feedback texts of the generated files: "a", "OK!", "?!", " b ", " ",
\* "<![>", "Dogs"
IngestTexts ==
    { <<"a">>, <<"O","K","!">>, <<"?","!">>, <<" ","b"," ">>, <<" ">>,
      RejectedText, <<"D","o","g","s">> }

\* TXT files of up to MaxRecords lines, each a text or nothing before "\n";
\* the lines "a", "&#1...1;"; the lines "<a\x00b>", U+0130; bytes that are no
\* UTF-8
GeneratedTxt ==
    {TxtFile(<<"f", ".", "t","x","t">>, ls) :
        ls \in SeqsUpTo({t \o <<"\n">> : t \in IngestTexts \cup {<<>>}}, MaxRecords)}
    \cup
    {TxtFile(<<"f", ".", "t","x","t">>, << <<"a", "\n">>, DigitLimitText \o <<"\n">> >>),
     TxtFile(<<"f", ".", "t","x","t">>, << NulTagText \o <<"\n">>, <<"U+0130", "\n">> >>),
     Undecodable(<<"f", ".", "t","x","t">>)}

\* JSON files: text that is no JSON, a top-level object, a list of one
\* object with an integer of 5000 digits in it, brackets nested 100000 deep,
\* brackets nested as deep as the preview's decoder can go and the decoder
\* of ingest_and_clean_data, two calls further down, cannot, bytes that are
\* no UTF-8, and lists of up to MaxRecords elements
GeneratedJson ==
    {JsonFile(<<"f", ".", "j","s","o","n">>, FALSE, FALSE, <<>>),
     JsonFile(<<"f", ".", "j","s","o","n">>, TRUE, FALSE, <<>>),
     JsonFileRaising(<<"f", ".", "j","s","o","n">>, "ValueError", DigitLimitError),
     JsonFileRaising(<<"f", ".", "j","s","o","n">>, "RecursionError",
                     "maximum recursion depth exceeded"),
     JsonFileRaising(<<"f", ".", "j","s","o","n">>, "RecursionError", ""),
     JsonFile(<<"f", ".", "j","s","o","n">>, TRUE, TRUE, <<JsonDict(DigitLimitText)>>),
     Undecodable(<<"f", ".", "j","s","o","n">>)}
    \cup
    {JsonFile(<<"f", ".", "j","s","o","n">>, TRUE, TRUE, its) :
        its \in SeqsUpTo({JsonDict(<<"a">>), JsonDict(<<"?","!">>),
                          JsonDict(<<" ","b"," ">>), JsonDict(RejectedText),
                          JsonDictNoFeedback, JsonDictNonStr, JsonScalar},
                         MaxRecords)}

\* the headers of the generated tables
GeneratedColumns ==
    { {<<"feedback_text">>}, {<<"feedback_text">>, <<"id">>}, {<<"id">>},
      {<<"id">>, <<"text">>}, {<<"feedback">>}, {<<"Feedback_Text">>, <<"id">>} }

\* CSV files: an empty file, a row of too many fields among the first five
\* and after them, bytes that are no UTF-8, and tables of up to MaxRecords
\* rows
GeneratedCsv ==
    {CsvFileRaising(<<"f", ".", "c","s","v">>, "No columns to parse from file"),
     CsvFileRaising(<<"f", ".", "c","s","v">>, "Error tokenizing data"),
     CsvFileRaising(<<"f", ".", "c","s","v">>, ""),
     Undecodable(<<"f", ".", "c","s","v">>)}
    \cup
    {CsvFile(<<"f", ".", "c","s","v">>, TRUE, cols, cells) :
        cols \in GeneratedColumns,
        cells \in SeqsUpTo({[nan |-> TRUE, s |-> <<>>],
                            [nan |-> FALSE, s |-> <<"a">>],
                            [nan |-> FALSE, s |-> <<"?","!">>],
                            [nan |-> FALSE, s |-> <<" ","b"," ">>],
                            [nan |-> FALSE, s |-> RejectedText]}, MaxRecords)}

\* the files the upload branch is run on by itself
IngestFiles == GeneratedTxt \cup GeneratedJson \cup GeneratedCsv

\* texts without markup, of up to MaxLen characters
PlainTexts == SeqsUpTo({"h", "t", "p", "."}, MaxLen)

\* a start tag and its end tag: <b> ... </b>, <a href=http://x> ... </a>
TagPairs ==
    { [open |-> <<"<", "b", ">">>, close |-> <<"<", "/", "b", ">">>],
      [open |-> <<"<", "a", " ", "h", "r", "e", "f", "=",
                  "h", "t", "t", "p", ":", "/", "/", "x", ">">>,
       close |-> <<"<", "/", "a", ">">>] }

\* what stands before the start tag: nothing, "see ", "www"
MarkedPre == { <<>>, <<"s", "e", "e", " ">>, <<"w", "w", "w">> }

\* what stands after the end tag: nothing, " c"
MarkedPost == { <<>>, <<" ", "c">> }

\* what stands before, between and after the tags of a text with a tag pair
MarkedParts ==
    [pre : MarkedPre,
     tags : TagPairs,
     inner : SeqsUpTo({"A", "w", ".", " "}, MaxInner) \ {<<>>},
     post : MarkedPost]

\* the text of the parts
Marked(m) == m.pre \o m.tags.open \o m.inner \o m.tags.close \o m.post

\* texts that contain an HTML tag pair
MarkedTexts == {Marked(m) : m \in MarkedParts}

\* [{"feedback": text}]: ingestion passes the text to preprocess_text as it is
NormalizeFiles ==
    {JsonFile(<<"f", ".", "j","s","o","n">>, TRUE, TRUE, <<JsonDict(t)>>) :
        t \in PlainTexts \cup MarkedTexts}

-----------------------------------------------------------------------------
(* utils/gemini_api.py: the analysis operations *)

\* the pieces of raw.split(',')
RECURSIVE SplitAt(_, _)
SplitAt(s, sep) ==
    IF \A k \in 1..Len(s) : s[k] # sep THEN <<s>>
    ELSE LET k == CHOOSE j \in 1..Len(s) :
                    s[j] = sep /\ \A m \in 1..(j - 1) : s[m] # sep
         IN  <<SubSeq(s, 1, k - 1)>> \o SplitAt(SubSeq(s, k + 1, Len(s)), sep)

\* ParseTopics without the test for "no topics"
ParseTopics_splits_no_topics(raw_topics) ==
    IF /\ raw_topics # <<>>
       /\ ~StartsWith(raw_topics, <<"An unexpected API error occurred:">>)
       /\ ~StartsWith(raw_topics, <<"Failed to get response after">>)
    THEN LET pieces == SplitAt(raw_topics, ",")
             stripped == [k \in 1..Len(pieces) |-> Strip(pieces[k])]
         IN  SelectSeq(stripped, LAMBDA t : t # <<>>)
    ELSE <<>>

\* ParseTopics that keeps the pieces that are empty after trimming
ParseTopics_keeps_empty(raw_topics) ==
    IF /\ raw_topics # <<>>
       /\ raw_topics # <<"no topics">>
       /\ ~StartsWith(raw_topics, <<"An unexpected API error occurred:">>)
       /\ ~StartsWith(raw_topics, <<"Failed to get response after">>)
    THEN LET pieces == SplitAt(raw_topics, ",")
         IN  [k \in 1..Len(pieces) |-> Strip(pieces[k])]
    ELSE <<>>

\* ParseTopics that takes the empty-or-blocked sentinel for a failure
ParseTopics_blocked_is_failure(raw_topics) ==
    IF /\ raw_topics # <<>>
       /\ raw_topics # <<"no topics">>
       /\ ~StartsWith(raw_topics, <<"An unexpected API error occurred:">>)
       /\ ~StartsWith(raw_topics, <<"Failed to get response after">>)
       /\ ~StartsWith(raw_topics, <<"AI response was empty or blocked for this input">>)
    THEN LET pieces == SplitAt(raw_topics, ",")
             stripped == [k \in 1..Len(pieces) |-> Strip(pieces[k])]
         IN  SelectSeq(stripped, LAMBDA t : t # <<>>)
    ELSE <<>>

\* lines 138-140 of extract_topics: the topics of the raw response
ParseTopics(raw_topics) ==
    IF /\ raw_topics # <<>>
       /\ raw_topics # <<"no topics">>
       /\ ~StartsWith(raw_topics, <<"An unexpected API error occurred:">>)
       /\ ~StartsWith(raw_topics, <<"Failed to get response after">>)
    THEN LET pieces == SplitAt(raw_topics, ",")
             stripped == [k \in 1..Len(pieces) |-> Strip(pieces[k])]
         IN  SelectSeq(stripped, LAMBDA t : t # <<>>)
    ELSE <<>>

\* app.py line 177: ", ".join(topics) if topics else ""
TopicsCell(topics) == IF topics # <<>> THEN Join(<<",", " ">>, topics) ELSE <<>>

\* the prompt of get_sentiment(feedback)
SentimentPrompt(feedback) ==
    <<"Analyze the sentiment of the following customer feedback: '">>
        \o feedback
        \o <<"'. Respond with only one word: Positive, Negative, or Neutral.">>

\* the prompt of extract_topics(feedback)
TopicsPrompt(feedback) ==
    <<"Extract 2 to 5 main topics or keywords from the following customer feedback: '">>
        \o feedback
        \o <<"'. Respond as a comma-separated list. Example: 'delivery, speed, tracking, app issues'. If no topics are found, respond with 'no topics'.">>

\* the prompt of generate_overall_summary(feedback_list)
SummaryPrompt(feedback_list) ==
    <<"Generate a comprehensive summary of the following customer feedback entries.">>
        \o Join(<<"\n">>, Take(feedback_list, SummarySampleSize))

\* the prompt the chat handler builds (app.py lines 240-250)
ChatPrompt(feedback_list, summary, question) ==
    <<"Feedback Snippets:">> \o Join(<<"\n">>, Take(feedback_list, chat_context_limit))
        \o <<"Overall AI Summary:">> \o summary
        \o <<"User's Question:">> \o question

-----------------------------------------------------------------------------
(* app.py: what the script does when a call of the executor returns *)

NoFile == [name |-> None, content |-> NoContent]

CallRecord(f, r) == [caller |-> f.caller, prompt |-> f.prompt, result |-> r]

SessionCall(caller, prompt) ==
    NewFrame(caller, prompt, DefaultMaxRetries, InitialDelay)

\* A widget interaction arrived while the handler ran: Streamlit stops the
\* script at the next st call it makes, before that call takes effect, and
\* runs the script again from the top; the locals of the handler are gone,
\* what it has written to st.session_state stays
Stopped ==
    /\ call' = IdleFrame
    /\ pc' = "run"
    /\ i' = 0
    /\ temp_sentiments' = <<>>
    /\ temp_topics_for_df' = <<>>
    /\ progress' = <<>>

\* the caller is a direct call: the frame keeps the returned value
AfterDirect(f, r) ==
    /\ call' = [f EXCEPT !.pc = "done", !.result = r]
    /\ UNCHANGED <<session_vars, handler_vars, startup>>

\* extract_topics called on its own returns: the frame keeps raw_topics and
\* the list returned
AfterExtractTopics(f, r) ==
    /\ call' = [f EXCEPT !.pc = "done",
                         !.result = [raw_topics |-> r, topics |-> ParseTopics(r)]]
    /\ UNCHANGED <<session_vars, handler_vars, startup>>

\* AfterSentiment that puts the new result first
AfterSentiment_prepends(f, r) ==
    /\ temp_sentiments' = <<r>> \o temp_sentiments
    /\ calls' = Append(calls, CallRecord(f, r))
    /\ call' = SessionCall("topics", TopicsPrompt(cleaned_feedback[i]))
    /\ UNCHANGED <<session_vars, pc, i, temp_topics_for_df, progress, ingests,
        startup, runs>>

\* AfterSentiment that stores "Error" for an answer that is none of
\* Positive, Negative, Neutral
AfterSentiment_validates(f, r) ==
    /\ temp_sentiments' =
           Append(temp_sentiments,
                  IF r \in { <<"Positive">>, <<"Negative">>, <<"Neutral">> }
                  THEN r ELSE <<"Error">>)
    /\ calls' = Append(calls, CallRecord(f, r))
    /\ call' = SessionCall("topics", TopicsPrompt(cleaned_feedback[i]))
    /\ UNCHANGED <<session_vars, pc, i, temp_topics_for_df, progress, ingests,
        startup, runs>>

\* lines 172-176: get_sentiment returned r; extract_topics is called
AfterSentiment(f, r) ==
    /\ temp_sentiments' = Append(temp_sentiments, r)
    /\ calls' = Append(calls, CallRecord(f, r))
    /\ call' = SessionCall("topics", TopicsPrompt(cleaned_feedback[i]))
    /\ UNCHANGED <<session_vars, pc, i, temp_topics_for_df, progress, ingests,
        startup, runs>>

\* AfterTopics that reports no progress
AfterTopics_no_progress(f, r) ==
    LET total_feedback == Len(cleaned_feedback)
        topics == Append(temp_topics_for_df, TopicsCell(ParseTopics(r)))
    IN  /\ calls' = Append(calls, CallRecord(f, r))
        /\ \/ /\ temp_topics_for_df' = topics
              /\ IF i < total_feedback
                 THEN /\ i' = i + 1
                      /\ call' = SessionCall("sentiment",
                                             SentimentPrompt(cleaned_feedback[i + 1]))
                      /\ UNCHANGED <<session_vars, pc, temp_sentiments,
                                     progress, ingests, startup, runs>>
                 ELSE /\ sentiments' = temp_sentiments
                      /\ topics_per_feedback' = topics
                      /\ call' = SessionCall("summary",
                                             SummaryPrompt(cleaned_feedback))
                      /\ UNCHANGED <<uploaded_file, lemmatize_option, cleaned_feedback, file_type,
                                     ai_summary, chat_history,
                                     last_uploaded_file_name, analysis_completed,
                                     pc, i, temp_sentiments, progress, ingests,
                                     startup, runs>>
           \/ /\ i = total_feedback
              /\ sentiments' = temp_sentiments
              /\ topics_per_feedback' = topics
              /\ Stopped
              /\ UNCHANGED <<uploaded_file, lemmatize_option, cleaned_feedback, file_type,
                             ai_summary, chat_history, last_uploaded_file_name,
                             analysis_completed, ingests, startup, runs>>

\* lines 176-188: the executor returned r to extract_topics.  The item is
\* done, progress is reported, and the loop goes on to the next item or
\* ends, the results are stored and generate_overall_summary is called; or a
\* widget interaction has arrived and the script is stopped at
\* ai_progress_bar.progress (line 180), or, after the last item, past the
\* writes of lines 182-183 at ai_progress_bar.empty() or st.spinner (lines
\* 184, 187)
AfterTopics(f, r) ==
    LET total_feedback == Len(cleaned_feedback)
        topics == Append(temp_topics_for_df, TopicsCell(ParseTopics(r)))
    IN  /\ calls' = Append(calls, CallRecord(f, r))
        /\ \/ /\ temp_topics_for_df' = topics
              /\ progress' = Append(progress, <<i, total_feedback>>)
              /\ IF i < total_feedback
                 THEN /\ i' = i + 1
                      /\ call' = SessionCall("sentiment",
                                             SentimentPrompt(cleaned_feedback[i + 1]))
                      /\ UNCHANGED <<session_vars, pc, temp_sentiments,
                                     ingests, startup, runs>>
                 ELSE /\ sentiments' = temp_sentiments
                      /\ topics_per_feedback' = topics
                      /\ call' = SessionCall("summary",
                                             SummaryPrompt(cleaned_feedback))
                      /\ UNCHANGED <<uploaded_file, lemmatize_option, cleaned_feedback, file_type,
                                     ai_summary, chat_history,
                                     last_uploaded_file_name, analysis_completed,
                                     pc, i, temp_sentiments, ingests, startup,
                                     runs>>
           \/ /\ Stopped
              /\ UNCHANGED <<session_vars, ingests, startup, runs>>
           \/ /\ i = total_feedback
              /\ sentiments' = temp_sentiments
              /\ topics_per_feedback' = topics
              /\ Stopped
              /\ UNCHANGED <<uploaded_file, lemmatize_option, cleaned_feedback, file_type,
                             ai_summary, chat_history, last_uploaded_file_name,
                             analysis_completed, ingests, startup, runs>>

\* lines 188-192: generate_overall_summary returned r and is stored; the
\* analysis is marked completed and st.rerun() is called, or a widget
\* interaction has arrived and the script is stopped where the spinner of
\* line 187 is left, before line 190
AfterSummary(f, r) ==
    /\ ai_summary' = r
    /\ calls' = Append(calls, CallRecord(f, r))
    /\ \/ analysis_completed' = TRUE
       \/ UNCHANGED analysis_completed
    /\ call' = IdleFrame
    /\ pc' = "run"
    /\ i' = 0
    /\ temp_sentiments' = <<>>
    /\ temp_topics_for_df' = <<>>
    /\ progress' = <<>>
    /\ UNCHANGED <<uploaded_file, lemmatize_option, cleaned_feedback, file_type, sentiments,
                   topics_per_feedback, chat_history, last_uploaded_file_name,
                   ingests, startup, runs>>

\* lines 254-258: get_chat_response returned r; the answer is shown and
\* appended, or a widget interaction has arrived and the script is stopped
\* where the spinner of line 238 is left or at st.markdown (line 257),
\* before line 258
AfterChat(f, r) ==
    /\ calls' = Append(calls, CallRecord(f, r))
    /\ \/ /\ chat_history' =
                    Append(chat_history, [role |-> "assistant", content |-> r])
          /\ call' = IdleFrame
          /\ pc' = "idle"
          /\ UNCHANGED <<i, temp_sentiments, temp_topics_for_df, progress>>
       \/ /\ Stopped
          /\ UNCHANGED chat_history
    /\ UNCHANGED <<uploaded_file, lemmatize_option, cleaned_feedback, file_type, sentiments,
                   topics_per_feedback, ai_summary, last_uploaded_file_name,
                   analysis_completed, ingests, startup, runs>>

\* make_gemini_call_with_retry returns r from frame f
Return(f, r) ==
    \/ f.caller = "direct" /\ AfterDirect(f, r)
    \/ f.caller = "extract_topics" /\ AfterExtractTopics(f, r)
    \/ f.caller = "sentiment" /\ AfterSentiment(f, r)
    \/ f.caller = "topics" /\ AfterTopics(f, r)
    \/ f.caller = "summary" /\ AfterSummary(f, r)
    \/ f.caller = "chat" /\ AfterChat(f, r)

\* an exception e leaves make_gemini_call_with_retry
Raise(f, e) ==
    /\ call' = [f EXCEPT !.pc = "raised", !.result = e]
    /\ UNCHANGED <<session_vars, handler_vars, startup>>

-----------------------------------------------------------------------------
(* make_gemini_call_with_retry: one action per way one pass of the loop ends *)

\* line 95: the loop condition
LoopCondition(f) == f.retries < f.max_retries

\* lines 107-108: the response has text; it is returned
OnText(f, t) == Return(f, t)

\* OnEmpty that treats the empty response as an error
OnEmpty_as_error(f) == Return(f, OtherErrorSentinel(<<"empty response">>))

\* lines 109-111: the response is empty or blocked
OnEmpty(f) == Return(f, BlockedSentinel)

\* OnResourceExhausted that sleeps before it looks at the attempts left
OnResourceExhausted_sleeps_first(f, e) ==
    IF f.retries + 1 < f.max_retries
    THEN /\ call' = Backoff(f)
         /\ UNCHANGED <<session_vars, handler_vars, startup>>
    ELSE Return(Backoff(f), ExhaustedSentinel(f.max_retries, e))

\* OnResourceExhausted without the return of line 120: the loop goes on
OnResourceExhausted_never_gives_up(f, e) ==
    /\ call' = Backoff(f)
    /\ UNCHANGED <<session_vars, handler_vars, startup>>

\* lines 113-120: ResourceExhausted; back off and go on, or give up
OnResourceExhausted(f, e) ==
    IF f.retries + 1 < f.max_retries
    THEN /\ call' = Backoff(f)
         /\ UNCHANGED <<session_vars, handler_vars, startup>>
    ELSE Return([f EXCEPT !.retries = @ + 1],
                ExhaustedSentinel(f.max_retries, e))

\* OnException without the handler: the exception leaves the function
OnException_reraises(f, e) == Raise(f, e)

\* OnException that retries as for a rate limit
OnException_retries(f, e) ==
    IF f.retries + 1 < f.max_retries
    THEN /\ call' = Backoff(f)
         /\ UNCHANGED <<session_vars, handler_vars, startup>>
    ELSE Return([f EXCEPT !.retries = @ + 1], OtherErrorSentinel(e))

\* lines 121-123: any other exception
OnException(f, e) == Return(f, OtherErrorSentinel(e))

AttemptText ==
    /\ call.pc = "loop" /\ LoopCondition(call)
    /\ \E t \in Texts : OnText(Requested(call, Outcome("text", t)), t)

AttemptEmpty ==
    /\ call.pc = "loop" /\ LoopCondition(call)
    /\ OnEmpty(Requested(call, Outcome("empty", <<>>)))

AttemptRateLimitRetry ==
    /\ call.pc = "loop" /\ LoopCondition(call)
    /\ call.retries + 1 < call.max_retries
    /\ \E e \in Errors : OnResourceExhausted(Requested(call, Outcome("rate", e)), e)

AttemptRateLimitExhausted ==
    /\ call.pc = "loop" /\ LoopCondition(call)
    /\ ~(call.retries + 1 < call.max_retries)
    /\ \E e \in Errors : OnResourceExhausted(Requested(call, Outcome("rate", e)), e)

AttemptOtherError ==
    /\ call.pc = "loop" /\ LoopCondition(call)
    /\ \E e \in Errors : OnException(Requested(call, Outcome("other", e)), e)

\* line 125: the loop condition fails
LoopExit ==
    /\ call.pc = "loop" /\ ~LoopCondition(call)
    /\ Return(call, UnknownReasonSentinel)

Attempt ==
    \/ AttemptText
    \/ AttemptEmpty
    \/ AttemptRateLimitRetry
    \/ AttemptRateLimitExhausted
    \/ AttemptOtherError

\* a caller outside the session calls the executor
DirectCall ==
    /\ pc = "test"
    /\ call.pc \in {"idle", "done"}
    /\ \E p \in DirectPrompts, m \in DirectMaxRetries :
           call' = NewFrame("direct", p, m, InitialDelay)
    /\ UNCHANGED <<session_vars, handler_vars, startup>>

\* the feedback extract_topics is called on by itself
TopicFeedback == { <<"o", "k">>, <<"late">> }

\* a caller outside the session calls extract_topics(feedback)
CallExtractTopics ==
    /\ pc = "test"
    /\ call.pc \in {"idle", "done"}
    /\ \E feedback \in TopicFeedback :
           call' = SessionCall("extract_topics", TopicsPrompt(feedback))
    /\ UNCHANGED <<session_vars, handler_vars, startup>>

-----------------------------------------------------------------------------
(* app.py: the session.  pc = "idle": the script has run to its end and    *)
(* waits for the user; "run": a run of the script from the top is due;     *)
(* "analysis", "chat": the handler is inside a call of the executor.       *)
(* The user acts on a widget when the script waits, or, after a failed     *)
(* ingestion, between two of the reruns that follow it (each of them ends  *)
(* in st.rerun(), none waits), or while a handler runs: the handler is     *)
(* then stopped at its next st call (Stopped), and what the interaction    *)
(* itself does follows as an action of its own once the script waits.      *)
(* The checkbox of line 126 is drawn by the upload branch alone, once the   *)
(* preview has been read: the user can tick it between the reruns that     *)
(* follow an ingestion that has failed past line 126, and the run that     *)
(* draws it next reads the value; a run that ends (in st.rerun() too)      *)
(* without having drawn it drops the value.                                *)

\* NewFileSeen that takes every file in the uploader for a new one
NewFileSeen_any_file == uploaded_file # NoFile

\* lines 94-96: the upload branch is taken
NewFileSeen ==
    uploaded_file # NoFile /\ last_uploaded_file_name # uploaded_file.name

\* lines 130-139: the upload branch has failed on the uploader's file and
\* has asked for a rerun
FailedIngestRerun == pc = "run" /\ NewFileSeen /\ ingests # <<>>

\* lines 111-126: the run of the upload branch on the uploader's file
\* reaches the checkbox: the bytes of a CSV or JSON file are decoded and
\* the preview is read before it, those of another file after it
CheckboxDrawn ==
    FileTypeOf(uploaded_file.name) \in {<<"c", "s", "v">>, <<"j", "s", "o", "n">>}
        => uploaded_file.content.utf8 /\ uploaded_file.content.preview = ""

\* the user puts file f into the uploader
UploadFile ==
    /\ pc = "idle" \/ FailedIngestRerun
    /\ \E f \in SessionFiles : f # uploaded_file /\ uploaded_file' = f
    /\ pc' = "run"
    /\ ingests' = <<>>
    /\ UNCHANGED <<call, lemmatize_option, cleaned_feedback, file_type,
                   sentiments, topics_per_feedback, ai_summary, chat_history,
                   last_uploaded_file_name, analysis_completed, i,
                   temp_sentiments, temp_topics_for_df, progress, calls,
                   startup, runs>>

\* line 126: the user ticks or clears "Apply Lemmatization", which the
\* run before has drawn
TickLemmatize ==
    /\ FailedIngestRerun
    /\ CheckboxDrawn
    /\ lemmatize_option' = ~lemmatize_option
    /\ UNCHANGED <<call, uploaded_file, cleaned_feedback, file_type, sentiments,
                   topics_per_feedback, ai_summary, chat_history,
                   last_uploaded_file_name, analysis_completed, handler_vars,
                   startup>>

\* the user removes the file from the uploader
RemoveFile ==
    /\ pc = "idle" \/ FailedIngestRerun
    /\ uploaded_file # NoFile
    /\ uploaded_file' = NoFile
    /\ pc' = "run"
    /\ ingests' = <<>>
    /\ UNCHANGED <<call, lemmatize_option, cleaned_feedback, file_type,
                   sentiments, topics_per_feedback, ai_summary, chat_history,
                   last_uploaded_file_name, analysis_completed, i,
                   temp_sentiments, temp_topics_for_df, progress, calls,
                   startup, runs>>

\* Ingest that resets the results only when the ingestion succeeds
Ingest_failure_keeps_results(ingested) ==
    /\ file_type' = FileTypeOf(uploaded_file.name)
    /\ calls' = <<>>
    /\ runs' = <<>>
    /\ IF ingested.ok
       THEN /\ cleaned_feedback' = ingested.value
            /\ last_uploaded_file_name' = uploaded_file.name
            /\ sentiments' = <<>>
            /\ topics_per_feedback' = <<>>
            /\ ai_summary' = <<>>
            /\ chat_history' = <<>>
            /\ analysis_completed' = FALSE
       ELSE /\ cleaned_feedback' = <<>>
            /\ last_uploaded_file_name' = None
            /\ UNCHANGED <<sentiments, topics_per_feedback, ai_summary,
                           chat_history, analysis_completed>>
    /\ pc' = "run"
    /\ ingests' = Append(ingests, IF ingested.ok THEN "ok" ELSE ingested.error)
    /\ lemmatize_option' = (lemmatize_option /\ CheckboxDrawn)
    /\ UNCHANGED <<call, uploaded_file, i, temp_sentiments, temp_topics_for_df,
                   progress, startup>>

\* Ingest that leaves the chat transcript of the previous file in place
Ingest_keeps_chat(ingested) ==
    /\ file_type' = FileTypeOf(uploaded_file.name)
    /\ sentiments' = <<>>
    /\ topics_per_feedback' = <<>>
    /\ ai_summary' = <<>>
    /\ analysis_completed' = FALSE
    /\ calls' = <<>>
    /\ runs' = <<>>
    /\ IF ingested.ok
       THEN /\ cleaned_feedback' = ingested.value
            /\ last_uploaded_file_name' = uploaded_file.name
       ELSE /\ cleaned_feedback' = <<>>
            /\ last_uploaded_file_name' = None
    /\ pc' = "run"
    /\ ingests' = Append(ingests, IF ingested.ok THEN "ok" ELSE ingested.error)
    /\ lemmatize_option' = (lemmatize_option /\ CheckboxDrawn)
    /\ UNCHANGED <<call, uploaded_file, chat_history, i, temp_sentiments,
                   temp_topics_for_df, progress, startup>>

\* lines 96-139 with the outcome `ingested` of the try block of lines
\* 110-128: the session is reset for the file, the data or the failure is
\* stored, st.rerun(); the value of the checkbox is dropped if the run has
\* not drawn it
Ingest(ingested) ==
    /\ file_type' = FileTypeOf(uploaded_file.name)
    /\ sentiments' = <<>>
    /\ topics_per_feedback' = <<>>
    /\ ai_summary' = <<>>
    /\ chat_history' = <<>>
    /\ analysis_completed' = FALSE
    /\ calls' = <<>>
    /\ runs' = <<>>
    /\ IF ingested.ok
       THEN /\ cleaned_feedback' = ingested.value
            /\ last_uploaded_file_name' = uploaded_file.name
       ELSE /\ cleaned_feedback' = <<>>
            /\ last_uploaded_file_name' = None
    /\ pc' = "run"
    /\ ingests' = Append(ingests, IF ingested.ok THEN "ok" ELSE ingested.error)
    /\ lemmatize_option' = (lemmatize_option /\ CheckboxDrawn)
    /\ UNCHANGED <<call, uploaded_file, i, temp_sentiments, temp_topics_for_df,
                   progress, startup>>

\* a run of the script that ingests the new file
IngestSucceeds ==
    /\ pc = "run"
    /\ NewFileSeen
    /\ Len(ingests) < MaxIngests
    /\ \E ingested \in {TryIngest(uploaded_file.content,
                                   FileTypeOf(uploaded_file.name),
                                   lemmatize_option)} :
          ingested.ok /\ Ingest(ingested)

\* a run of the script in which the preview or the ingestion raises
IngestFails ==
    /\ pc = "run"
    /\ NewFileSeen
    /\ Len(ingests) < MaxIngests
    /\ \E ingested \in {TryIngest(uploaded_file.content,
                                   FileTypeOf(uploaded_file.name),
                                   lemmatize_option)} :
          ~ingested.ok /\ Ingest(ingested)

\* lines 96-135 when a widget interaction has arrived during the run: the
\* script is stopped at st.spinner (line 109), st.checkbox (line 126) or
\* st.error (lines 131, 135), past the writes of lines 97-107 and before
\* cleaned_feedback or last_uploaded_file_name is written again
IngestStopped ==
    /\ pc = "run"
    /\ NewFileSeen
    /\ Len(ingests) < MaxIngests
    /\ last_uploaded_file_name' = uploaded_file.name
    /\ cleaned_feedback' = <<>>
    /\ sentiments' = <<>>
    /\ topics_per_feedback' = <<>>
    /\ ai_summary' = <<>>
    /\ chat_history' = <<>>
    /\ analysis_completed' = FALSE
    /\ file_type' = FileTypeOf(uploaded_file.name)
    /\ calls' = <<>>
    /\ runs' = <<>>
    /\ pc' = "run"
    /\ ingests' = Append(ingests, "stopped")
    /\ UNCHANGED <<call, uploaded_file, lemmatize_option, i, temp_sentiments, temp_topics_for_df,
                   progress, startup>>

\* a run of the script that takes no handler: it renders and ends; it has
\* not drawn the checkbox of line 126, whose value is dropped
Render ==
    /\ pc = "run"
    /\ ~NewFileSeen
    /\ pc' = "idle"
    /\ lemmatize_option' = FALSE
    /\ UNCHANGED <<call, uploaded_file, cleaned_feedback, file_type, sentiments,
                   topics_per_feedback, ai_summary, chat_history,
                   last_uploaded_file_name, analysis_completed, i,
                   temp_sentiments, temp_topics_for_df, progress, calls, ingests,
                   startup, runs>>

\* ClickRunAnalysis with the button shown after a completed analysis too
ClickRunAnalysis_again ==
    /\ pc = "idle"
    /\ uploaded_file # NoFile
    /\ ~NewFileSeen
    /\ cleaned_feedback # <<>>
    /\ Len(runs) < MaxRuns + (IF analysis_completed THEN 1 ELSE 0)
    /\ runs' = Append(runs, Len(calls))
    /\ \/ /\ pc' = "analysis"
          /\ i' = 1
          /\ temp_sentiments' = <<>>
          /\ temp_topics_for_df' = <<>>
          /\ progress' = <<>>
          /\ call' = SessionCall("sentiment", SentimentPrompt(cleaned_feedback[1]))
       \/ Stopped
    /\ UNCHANGED <<session_vars, calls, ingests, startup>>

\* lines 159-172: the user clicks "Run AI Analysis" and get_sentiment is
\* called for the first item; or a widget interaction has arrived and the
\* script is stopped at st.spinner or st.progress (lines 161, 163)
ClickRunAnalysis ==
    /\ pc = "idle"
    /\ uploaded_file # NoFile
    /\ ~NewFileSeen
    /\ cleaned_feedback # <<>>
    /\ ~analysis_completed
    /\ Len(runs) < MaxRuns + (IF analysis_completed THEN 1 ELSE 0)
    /\ runs' = Append(runs, Len(calls))
    /\ \/ /\ pc' = "analysis"
          /\ i' = 1
          /\ temp_sentiments' = <<>>
          /\ temp_topics_for_df' = <<>>
          /\ progress' = <<>>
          /\ call' = SessionCall("sentiment", SentimentPrompt(cleaned_feedback[1]))
       \/ Stopped
    /\ UNCHANGED <<session_vars, calls, ingests, startup>>

ChatQuestions == { <<"What do customers love most?">> }

\* the number of chat interactions of the session so far
ChatTurns == Cardinality({k \in 1..Len(chat_history) : chat_history[k].role = "user"})

\* lines 200, 233-254: the user submits a question, in a session that
\* follows at most `limit` chat interactions; the question is appended and
\* get_chat_response is called, or a widget interaction has arrived and the
\* script is stopped at st.chat_message (line 235)
AskQuestion(limit) ==
    /\ pc = "idle"
    /\ ~NewFileSeen
    /\ analysis_completed
    /\ sentiments # <<>>
    /\ ChatTurns < limit
    /\ \E q \in ChatQuestions :
          /\ chat_history' = Append(chat_history, [role |-> "user", content |-> q])
          /\ \/ /\ call' = SessionCall("chat",
                                       ChatPrompt(cleaned_feedback, ai_summary, q))
                /\ pc' = "chat"
                /\ UNCHANGED <<i, temp_sentiments, temp_topics_for_df, progress>>
             \/ Stopped
    /\ UNCHANGED <<uploaded_file, lemmatize_option, cleaned_feedback, file_type, sentiments,
                   topics_per_feedback, ai_summary, last_uploaded_file_name,
                   analysis_completed, calls, ingests, startup, runs>>

SubmitChat == AskQuestion(MaxChat)

SubmitChatOnly == AskQuestion(MaxChatOnly)

\* lines 269, 311-313 and 47-64: the user clicks "Reset Application";
\* st.session_state.clear(), and the rerun sets every key to its default.
\* Whether the uploader keeps its file over the clear is Streamlit's affair:
\* either may happen.
ResetApplication ==
    /\ pc = "idle"
    /\ ~NewFileSeen
    /\ analysis_completed
    /\ cleaned_feedback' = <<>>
    /\ file_type' = None
    /\ sentiments' = <<>>
    /\ topics_per_feedback' = <<>>
    /\ ai_summary' = <<>>
    /\ chat_history' = <<>>
    /\ last_uploaded_file_name' = None
    /\ analysis_completed' = FALSE
    /\ calls' = <<>>
    /\ uploaded_file' \in {uploaded_file, NoFile}
    /\ pc' = "run"
    /\ ingests' = <<>>
    /\ runs' = <<>>
    /\ UNCHANGED <<call, lemmatize_option, i, temp_sentiments,
                   temp_topics_for_df, progress, startup>>

-----------------------------------------------------------------------------
(* utils/gemini_api.py: the choice of the model when the module is         *)
(* imported.  startup.listing is what genai.list_models() does in the call *)
(* of get_supported_model: it fails, or it yields models, each with a name *)
(* and its supported_generation_methods.                                   *)

\* default of parameter preferred_models
PreferredModels == << <<"gemini-1.5-flash">>, <<"gemini-1.0-pro">> >>

\* default of parameter fallback_model
DefaultFallbackModel == <<"gemini-1.0-pro">>

\* the fallback_model arguments of the calls
FallbackModels == { DefaultFallbackModel, <<"gemini-pro">> }

\* f"models/{p_model}"
FullModelName(p_model) == <<"models/">> \o p_model

\* the names the service may list; the fourth lacks the prefix "models/"
ModelNames ==
    << <<"models/", "gemini-1.5-flash">>, <<"models/", "gemini-1.0-pro">>,
       <<"models/", "gemini-pro">>, <<"gemini-1.0-pro">>,
       <<"models/", "embedding-001">> >>

\* the listed models, in the order of ModelNames: model k is not listed
\* (c[k] = "absent"), or is listed as a model that generates content or as
\* one that only embeds
RECURSIVE ListedFrom(_, _)
ListedFrom(c, k) ==
    IF k > Len(ModelNames) THEN <<>>
    ELSE (IF c[k] = "absent" THEN <<>>
          ELSE << [name |-> ModelNames[k],
                   supported_generation_methods |->
                       IF c[k] = "generate"
                       THEN {"generateContent", "countTokens"}
                       ELSE {"embedContent"}] >>)
         \o ListedFrom(c, k + 1)

\* what genai.list_models() may do
Listings ==
    {[fails |-> TRUE, models |-> <<>>]}
    \cup {[fails |-> FALSE, models |-> ListedFrom(c, 1)] :
             c \in [1..Len(ModelNames) -> {"absent", "generate", "embed"}]}

\* lines 25-28: the names of the listed models that support generateContent
AvailableModels(listing) ==
    LET supporting ==
            SelectSeq(listing.models,
                      LAMBDA m : "generateContent" \in m.supported_generation_methods)
    IN  [k \in 1..Len(supporting) |-> supporting[k].name]

\* lines 32-37: the first preferred model whose full name is available
\* (<<>>: none)
RECURSIVE FirstPreferred(_, _)
FirstPreferred(preferred_models, available_models) ==
    IF preferred_models = <<>> THEN <<>>
    ELSE IF FullModelName(Head(preferred_models)) \in Range(available_models)
    THEN Head(preferred_models)
    ELSE FirstPreferred(Tail(preferred_models), available_models)

\* lines 24-46, the body of the try: the model returned, or the exception
\* raised
SelectModel(listing, preferred_models, fallback_model) ==
    IF listing.fails THEN Error("list_models failed")
    ELSE LET available_models == AvailableModels(listing)
             p_model == FirstPreferred(preferred_models, available_models)
         IN  IF p_model # <<>> THEN Ok(p_model)
             ELSE IF FullModelName(fallback_model) \in Range(available_models)
             THEN Ok(fallback_model)
             ELSE Error("No suitable Gemini model found.")

\* get_supported_model(preferred_models, fallback_model): lines 48-51 catch
\* every Exception raised in the try and return fallback_model
get_supported_model(listing, preferred_models, fallback_model) ==
    LET selected == SelectModel(listing, preferred_models, fallback_model)
    IN  IF selected.ok THEN selected ELSE Ok(fallback_model)

\* get_supported_model is about to be called
Importing(listing, fallback_model) ==
    [pc |-> "import", listing |-> listing, fallback_model |-> fallback_model,
     model_to_use |-> None]

\* the module has been imported: gemini-1.5-flash was listed and chosen
Imported ==
    [pc |-> "selected",
     listing |-> [fails |-> FALSE,
                  models |-> ListedFrom([k \in 1..Len(ModelNames) |->
                                            IF k = 1 THEN "generate" ELSE "absent"],
                                        1)],
     fallback_model |-> DefaultFallbackModel,
     model_to_use |-> <<"gemini-1.5-flash">>]

\* the call of get_supported_model ends with outcome `selected`: line 55
\* assigns the value returned, an exception leaves the call
Select(selected) ==
    /\ startup' = IF selected.ok
                  THEN [startup EXCEPT !.pc = "selected",
                                       !.model_to_use = selected.value]
                  ELSE [startup EXCEPT !.pc = "raised"]
    /\ UNCHANGED <<call, session_vars, handler_vars>>

\* line 37: a preferred model is returned
SelectPreferred ==
    /\ startup.pc = "import"
    /\ LET tried == SelectModel(startup.listing, PreferredModels,
                                startup.fallback_model)
       IN  /\ tried.ok
           /\ tried.value \in Range(PreferredModels)
           /\ Select(get_supported_model(startup.listing, PreferredModels,
                                         startup.fallback_model))

\* line 43: the fallback model is listed and returned
SelectFallback ==
    /\ startup.pc = "import"
    /\ LET tried == SelectModel(startup.listing, PreferredModels,
                                startup.fallback_model)
       IN  /\ tried.ok
           /\ tried.value \notin Range(PreferredModels)
           /\ Select(get_supported_model(startup.listing, PreferredModels,
                                         startup.fallback_model))

\* lines 46-51: no suitable model is listed
NoSuitableModel ==
    /\ startup.pc = "import"
    /\ ~startup.listing.fails
    /\ ~SelectModel(startup.listing, PreferredModels, startup.fallback_model).ok
    /\ Select(get_supported_model(startup.listing, PreferredModels,
                                  startup.fallback_model))

\* lines 26, 48-51: genai.list_models() raises
ListingFails ==
    /\ startup.pc = "import"
    /\ startup.listing.fails
    /\ Select(get_supported_model(startup.listing, PreferredModels,
                                  startup.fallback_model))

-----------------------------------------------------------------------------
(* Specifications *)

\* lines 47-64: the defaults of the session state
SessionDefaults ==
    /\ lemmatize_option = FALSE
    /\ cleaned_feedback = <<>>
    /\ file_type = None
    /\ sentiments = <<>>
    /\ topics_per_feedback = <<>>
    /\ ai_summary = <<>>
    /\ chat_history = <<>>
    /\ last_uploaded_file_name = None
    /\ analysis_completed = FALSE

NoHandler ==
    /\ call = IdleFrame
    /\ i = 0
    /\ temp_sentiments = <<>>
    /\ temp_topics_for_df = <<>>
    /\ progress = <<>>
    /\ calls = <<>>
    /\ runs = <<>>

\* a fresh session, no file uploaded
Init ==
    /\ SessionDefaults
    /\ NoHandler
    /\ uploaded_file = NoFile
    /\ ingests = <<>>
    /\ startup = Imported
    /\ pc = "idle"

Next ==
    \/ UploadFile
    \/ RemoveFile
    \/ TickLemmatize
    \/ IngestSucceeds
    \/ IngestFails
    \/ IngestStopped
    \/ Render
    \/ ClickRunAnalysis
    \/ SubmitChat
    \/ ResetApplication
    \/ Attempt

\* the session: uploads, the batch analysis, chat and reset
Spec == Init /\ [][Next]_vars

\* the executor called on its own
InitCall ==
    /\ SessionDefaults
    /\ NoHandler
    /\ uploaded_file = NoFile
    /\ ingests = <<>>
    /\ startup = Imported
    /\ pc = "test"

NextCall == DirectCall \/ Attempt \/ LoopExit

SpecCall == InitCall /\ [][NextCall]_vars

NextTopics == CallExtractTopics \/ Attempt

\* extract_topics called on its own
SpecTopics == InitCall /\ [][NextTopics]_vars

\* the module is being imported: get_supported_model is called
InitStartup ==
    /\ SessionDefaults
    /\ NoHandler
    /\ uploaded_file = NoFile
    /\ ingests = <<>>
    /\ pc = "import"
    /\ \E listing \in Listings, fallback_model \in FallbackModels :
           startup = Importing(listing, fallback_model)

NextStartup == SelectPreferred \/ SelectFallback \/ NoSuitableModel \/ ListingFails

\* the choice of the model
SpecStartup == InitStartup /\ [][NextStartup]_vars

\* a session that has ingested one of the batch files
InitBatch ==
    /\ NoHandler
    /\ ingests = <<"ok">>
    /\ startup = Imported
    /\ pc = "idle"
    /\ \E f \in BatchFiles :
          /\ uploaded_file = f
          /\ last_uploaded_file_name = f.name
          /\ file_type = FileTypeOf(f.name)
          /\ cleaned_feedback =
                 ingest_and_clean_data(f.content, FileTypeOf(f.name), FALSE).value
    /\ lemmatize_option = FALSE
    /\ sentiments = <<>>
    /\ topics_per_feedback = <<>>
    /\ ai_summary = <<>>
    /\ chat_history = <<>>
    /\ analysis_completed = FALSE

NextBatch == ClickRunAnalysis \/ Attempt \/ Render

\* the batch analysis of an ingested file
SpecBatch == InitBatch /\ [][NextBatch]_vars

\* the script is one thread: a handler that has started goes on running
FairBatch == SpecBatch /\ WF_vars(Attempt) /\ WF_vars(Render)

\* a session whose uploader holds a generated file: a fresh session, or
\* one in which the ingestion of a TXT file has failed and the user has
\* ticked the checkbox and put a generated TXT file into the uploader
InitIngest ==
    /\ lemmatize_option \in BOOLEAN
    /\ file_type = IF lemmatize_option THEN <<"t", "x", "t">> ELSE None
    /\ cleaned_feedback = <<>>
    /\ sentiments = <<>>
    /\ topics_per_feedback = <<>>
    /\ ai_summary = <<>>
    /\ chat_history = <<>>
    /\ last_uploaded_file_name = None
    /\ analysis_completed = FALSE
    /\ NoHandler
    /\ ingests = <<>>
    /\ startup = Imported
    /\ pc = "run"
    /\ uploaded_file \in IF lemmatize_option THEN GeneratedTxt ELSE IngestFiles

NextIngest ==
    \/ IngestSucceeds
    \/ IngestFails
    \/ IngestStopped
    \/ Render
    \/ RemoveFile
    \/ TickLemmatize

\* the upload branch on a file
SpecIngest == InitIngest /\ [][NextIngest]_vars

\* a fresh session whose uploader holds a list of one feedback text
InitNormalize ==
    /\ SessionDefaults
    /\ NoHandler
    /\ ingests = <<>>
    /\ startup = Imported
    /\ pc = "run"
    /\ uploaded_file \in NormalizeFiles

\* preprocess_text on one text, through the upload branch
SpecNormalize == InitNormalize /\ [][NextIngest]_vars

\* a session that has ingested and analysed a file of one record
InitChat ==
    /\ call = IdleFrame
    /\ i = 0
    /\ temp_sentiments = <<>>
    /\ temp_topics_for_df = <<>>
    /\ progress = <<>>
    /\ ingests = <<"ok">>
    /\ runs = <<0>>
    /\ startup = Imported
    /\ pc = "idle"
    /\ uploaded_file = RevisedReviewsTxt
    /\ lemmatize_option = FALSE
    /\ last_uploaded_file_name = RevisedReviewsTxt.name
    /\ file_type = FileTypeOf(RevisedReviewsTxt.name)
    /\ cleaned_feedback = << <<"o", "k">> >>
    /\ chat_history = <<>>
    /\ analysis_completed = TRUE
    /\ \E s \in SessionTexts, t \in SessionTexts, m \in SessionTexts :
          /\ sentiments = <<s>>
          /\ topics_per_feedback = <<TopicsCell(ParseTopics(t))>>
          /\ ai_summary = m
          /\ calls = << [caller |-> "sentiment",
                         prompt |-> SentimentPrompt(<<"o", "k">>), result |-> s],
                        [caller |-> "topics",
                         prompt |-> TopicsPrompt(<<"o", "k">>), result |-> t],
                        [caller |-> "summary",
                         prompt |-> SummaryPrompt(<< <<"o", "k">> >>), result |-> m] >>

NextChat ==
    \/ SubmitChatOnly
    \/ Attempt
    \/ Render
    \/ UploadFile
    \/ RemoveFile
    \/ TickLemmatize
    \/ IngestSucceeds
    \/ IngestFails
    \/ IngestStopped
    \/ ResetApplication

\* the chat over a completed analysis, until a new file or a reset ends it
SpecChat == InitChat /\ [][NextChat]_vars

-----------------------------------------------------------------------------
(* Claims about make_gemini_call_with_retry, checked under SpecCall *)

IsStr(s) == DOMAIN s = 1..Len(s) /\ \A k \in 1..Len(s) : s[k] \in STRING

\* the outcome of the last request of the call
LastOutcome ==
    IF call.outcomes = <<>> THEN Outcome("none", <<>>)
    ELSE call.outcomes[Len(call.outcomes)]

Returned == call.pc = "done"

DefaultCall == call.max_retries = DefaultMaxRetries

\* the delays of successive sleeps the specification lists
ListedDelays == <<1, 2, 4, 8, 16, 32, 64>>

\* C1: the call never raises; a request that ends in text, empty text or an
\* error other than rate limit ends the call, rate limits end it at the
\* maximum, and what is returned is a string: for a failure the string that
\* describes that failure.
C1_NeverRaises ==
    /\ call.pc \in {"idle", "loop", "done"}
    /\ call.pc = "loop" =>
          /\ Requests(call) = call.retries
          /\ call.max_retries > 0 => call.retries < call.max_retries
          /\ \A k \in 1..Requests(call) : call.outcomes[k].kind = "rate"
    /\ Returned =>
          /\ IsStr(call.result)
          /\ LastOutcome.kind = "text" => call.result = LastOutcome.detail
          /\ LastOutcome.kind = "empty" =>
                StartsWith(call.result,
                           <<"AI response was empty or blocked for this input">>)
          /\ LastOutcome.kind = "rate" =>
                /\ StartsWith(call.result, <<"Failed to get response after">>)
                /\ SubSeq(call.result, Len(call.result) - Len(LastOutcome.detail) + 1,
                          Len(call.result)) = LastOutcome.detail
          /\ LastOutcome.kind = "other" =>
                call.result = <<"An unexpected API error occurred:", " ">>
                                  \o LastOutcome.detail

\* C1 witness: a call has returned after a request that raised an error
\* other than rate limit, on its second request
C1_Witness ==
    /\ Returned
    /\ Requests(call) = 2
    /\ LastOutcome.kind = "other"
    /\ IsStr(call.result)

\* C2: a call with the default maximum issues at most 7 requests, and its
\* attempt counter stays within 0..7.
C2_AtMostSevenRequests ==
    DefaultCall =>
        /\ Requests(call) <= 7
        /\ call.retries \in 0..7
        /\ call.retries <= Requests(call)

\* C2 witness: a call has issued its seventh request
C2_Witness == DefaultCall /\ Requests(call) = 7

\* C3: when the first k requests are rate limited and request k+1 answers
\* text, the call returns that text after k+1 requests and k sleeps of
\* 1, 2, 4, ..., 2^(k-1), for k from 0 to 6.
C3_RetryThenSuccess ==
    (Returned /\ DefaultCall /\ LastOutcome.kind = "text") =>
        LET k == Requests(call) - 1
        IN  /\ k \in 0..6
            /\ \A j \in 1..k : call.outcomes[j].kind = "rate"
            /\ call.result = LastOutcome.detail
            /\ call.sleeps = SubSeq(ListedDelays, 1, k)

\* C3 witness: three rate limits, then text, and sleeps of 1, 2, 4
C3_Witness ==
    /\ Returned /\ DefaultCall
    /\ Requests(call) = 4
    /\ LastOutcome.kind = "text"
    /\ call.sleeps = <<1, 2, 4>>

\* C4: when every request is rate limited, the call issues exactly 7
\* requests, sleeps exactly 6 times, and returns the exhaustion sentinel,
\* which holds the attempt count 7 and the text of the last error.
C4_Exhaustion ==
    (Returned /\ DefaultCall /\ LastOutcome.kind = "rate") =>
        /\ Requests(call) = 7
        /\ \A j \in 1..7 : call.outcomes[j].kind = "rate"
        /\ Len(call.sleeps) = 6
        /\ call.result =
              <<"Failed to get response after", " ", "7", " ",
                "retries due to quota/rate limit:", " ">> \o call.outcomes[7].detail

\* C4 witness: an exhausted call whose last error differs from its first
C4_Witness ==
    /\ Returned /\ DefaultCall
    /\ LastOutcome.kind = "rate"
    /\ call.outcomes[1].detail # LastOutcome.detail

\* C5 as stated: a call that is rate limited on every attempt has slept
\* 1, 2, 4, 8, 16, 32, 64.
C5_Original ==
    (Returned /\ DefaultCall /\ LastOutcome.kind = "rate") =>
        call.sleeps = ListedDelays

\* C5 amended: the delay starts at 1 and doubles after each sleep, so the
\* sleeps of a call are 1, 2, 4, ... in that order; a call sleeps at most
\* six times, and one that is rate limited on every attempt has slept
\* 1, 2, 4, 8, 16, 32: the delay of 64 is computed and never slept.
C5_DelaySequence ==
    (DefaultCall /\ call.pc \in {"loop", "done"}) =>
        /\ Len(call.sleeps) <= 6
        /\ call.sleeps = SubSeq(ListedDelays, 1, Len(call.sleeps))
        /\ call.delay = ListedDelays[Len(call.sleeps) + 1]
        /\ (Returned /\ LastOutcome.kind = "rate") =>
              /\ call.sleeps = <<1, 2, 4, 8, 16, 32>>
              /\ call.delay = 64

\* C5 witness: an exhausted call that has slept 1, 2, 4, 8, 16, 32
C5_Witness ==
    /\ Returned /\ DefaultCall
    /\ Requests(call) = 7
    /\ call.sleeps = <<1, 2, 4, 8, 16, 32>>
    /\ call.delay = 64

\* C6: a request that fails with an error other than rate limit is the
\* last request of its call: the call has returned the sentinel holding
\* that error, and has slept once per rate limit before it and not again.
C6_OtherErrorIsTerminal ==
    \A k \in 1..Requests(call) :
        call.outcomes[k].kind = "other" =>
            /\ k = Requests(call)
            /\ Returned
            /\ call.result = <<"An unexpected API error occurred:", " ">>
                                 \o call.outcomes[k].detail
            /\ Len(call.sleeps) = k - 1
            /\ \A j \in 1..(k - 1) : call.outcomes[j].kind = "rate"

\* C6 witness: two rate limits, then another error: two sleeps
C6_Witness ==
    /\ Returned
    /\ Requests(call) = 3
    /\ LastOutcome.kind = "other"
    /\ Len(call.sleeps) = 2

\* C7: a request that answers empty or blocked text is the last request of
\* its call: the call has returned the fixed sentinel, which is neither the
\* exhaustion sentinel nor the other-error sentinel, and has not slept
\* for it.
C7_EmptyIsTerminal ==
    \A k \in 1..Requests(call) :
        call.outcomes[k].kind = "empty" =>
            /\ k = Requests(call)
            /\ Returned
            /\ call.result =
                  <<"AI response was empty or blocked for this input", ",", " ",
                    "possibly due to safety settings.">>
            /\ Len(call.sleeps) = k - 1
            /\ \A e \in DirectErrors :
                  /\ call.result # OtherErrorSentinel(e)
                  /\ call.result # ExhaustedSentinel(call.max_retries, e)
            /\ ~StartsWith(call.result, <<"An unexpected API error occurred:">>)
            /\ ~StartsWith(call.result, <<"Failed to get response after">>)

\* C7 witness: a rate limit, then an empty response
C7_Witness ==
    /\ Returned
    /\ Requests(call) = 2
    /\ LastOutcome.kind = "empty"
    /\ call.result = BlockedSentinel

-----------------------------------------------------------------------------
(* Claims about the batch analysis *)

\* a string is one of the executor's failure strings
IsFailureText(s) ==
    \/ s = BlockedSentinel
    \/ StartsWith(s, <<"An unexpected API error occurred:">>)
    \/ StartsWith(s, <<"Failed to get response after">>)

AnalysisDone ==
    /\ analysis_completed
    /\ Len(sentiments) = Len(cleaned_feedback)
    /\ Len(topics_per_feedback) = Len(cleaned_feedback)

\* the script is at rest after a run of the analysis that was stopped short
RunStopped == pc = "idle" /\ runs # <<>> /\ ~analysis_completed

\* C8, as the specification states it: a batch analysis that has started
\* runs to completion whatever its calls return: the analysis is marked
\* completed with one sentiment and one topics entry per cleaned record.
C8_Original == (pc = "analysis") ~> AnalysisDone

\* whatever its calls return, a run that has started completes or is
\* stopped by a widget interaction
C8_CompletesUnlessStopped == (pc = "analysis") ~> (AnalysisDone \/ RunStopped)

\* a run over three records has been stopped at the progress report of the
\* first record: two calls were made, nothing is stored, the script is at
\* rest and the analysis is not completed
C8_Witness ==
    /\ RunStopped
    /\ Len(cleaned_feedback) = 3
    /\ Len(calls) = 2
    /\ sentiments = <<>>
    /\ topics_per_feedback = <<>>

\* C9, as the specification states it, of the states in which the script
\* is at rest: the analysis is completed and the three lengths agree, or it
\* is not completed and both result lists are empty.
C9_Original ==
    pc = "idle" =>
        \/ AnalysisDone
        \/ ~analysis_completed /\ sentiments = <<>> /\ topics_per_feedback = <<>>

\* the two result lists have the same length, 0 or the number of cleaned
\* records, and it is that number when the analysis is completed: the
\* export table has three columns of one length
C9_ExportColumns ==
    /\ Len(sentiments) = Len(topics_per_feedback)
    /\ Len(sentiments) \in {0, Len(cleaned_feedback)}
    /\ analysis_completed => AnalysisDone /\ cleaned_feedback # <<>>

\* a run over two records has been stopped after it stored its results and
\* before the summary: the script is at rest with two sentiments and two
\* topics entries, no summary, and the analysis not completed
C9_Witness ==
    /\ pc = "idle"
    /\ ~analysis_completed
    /\ Len(cleaned_feedback) = 2
    /\ Len(sentiments) = 2
    /\ Len(topics_per_feedback) = 2
    /\ ai_summary = <<>>

\* the number of executor calls made for the file before the last run of
\* the analysis started
RunBase == IF runs = <<>> THEN 0 ELSE runs[Len(runs)]

\* the executor calls of the last analysis run, by position: for record k
\* the sentiment call, then the topics call; after the last record the
\* summary
SentimentCallOf(k) == calls[RunBase + 2 * k - 1]
TopicsCallOf(k) == calls[RunBase + 2 * k]

\* C10: after a completed analysis, for every record k sentiments[k] is
\* what the sentiment call made for cleaned_feedback[k] returned and
\* topics_per_feedback[k] is the topics of what the topics call made for
\* cleaned_feedback[k] returned; there are as many results as records and
\* one call of each kind per record.
C10_ResultsAligned ==
    analysis_completed =>
        /\ Len(sentiments) = Len(cleaned_feedback)
        /\ Len(topics_per_feedback) = Len(cleaned_feedback)
        /\ Len(calls) >= RunBase + 2 * Len(cleaned_feedback) + 1
        /\ \A k \in 1..Len(cleaned_feedback) :
              /\ SentimentCallOf(k).caller = "sentiment"
              /\ SentimentCallOf(k).prompt = SentimentPrompt(cleaned_feedback[k])
              /\ sentiments[k] = SentimentCallOf(k).result
              /\ TopicsCallOf(k).caller = "topics"
              /\ TopicsCallOf(k).prompt = TopicsPrompt(cleaned_feedback[k])
              /\ topics_per_feedback[k] =
                    TopicsCell(ParseTopics(TopicsCallOf(k).result))
        /\ \A n \in (RunBase + 1)..Len(calls) :
              calls[n].caller \in {"sentiment", "topics"} =>
                  n <= RunBase + 2 * Len(cleaned_feedback)

\* C10 witness: three lines analysed, the three sentiments all different
C10_Witness ==
    /\ analysis_completed
    /\ cleaned_feedback = << <<"a">>, <<"b">>, <<"c">> >>
    /\ Len(sentiments) = 3
    /\ sentiments[1] # sentiments[2]
    /\ sentiments[2] # sentiments[3]
    /\ sentiments[1] # sentiments[3]
    /\ topics_per_feedback[1] # topics_per_feedback[3]

-----------------------------------------------------------------------------
(* Claims about the upload branch and the session data, checked under Spec *)

\* the last run of the upload branch on the uploader's file has failed
IngestFailed == ingests # <<>> /\ last_uploaded_file_name = None

\* the last run of the upload branch was stopped by a widget interaction
IngestInterrupted == ingests # <<>> /\ ingests[Len(ingests)] = "stopped"

ResultsEmpty ==
    /\ sentiments = <<>>
    /\ topics_per_feedback = <<>>
    /\ ai_summary = <<>>
    /\ chat_history = <<>>
    /\ ~analysis_completed

\* C11: after a failed ingestion (format error or empty result) the session
\* holds no data: cleaned_feedback, sentiments, topics, summary and chat
\* transcript are empty and the analysis is not marked completed.
C11_NoPartialData ==
    /\ IngestFailed => cleaned_feedback = <<>> /\ ResultsEmpty
    /\ IngestInterrupted => cleaned_feedback = <<>> /\ ResultsEmpty

\* the ingestion of a file whose lines are all punctuation has failed
C11_Witness ==
    /\ IngestFailed
    /\ uploaded_file = PunctuationTxt
    /\ file_type = <<"t", "x", "t">>

\* C12, as the specification states it: a file whose ingestion failed is
\* not ingested again; the upload branch runs at most once on the file the
\* uploader holds until the user changes it.
C12_Original == Len(ingests) <= 1

\* the upload branch has run twice on the same file and failed both times
C12_Witness == IngestFailed /\ Len(ingests) = 2 /\ uploaded_file = ObjectJson

\* the sentiment and topics results are those of the calls a run made for
\* the records of the current cleaned_feedback
ResultsFromCurrent ==
    sentiments # <<>> =>
        /\ Len(sentiments) = Len(cleaned_feedback)
        /\ Len(topics_per_feedback) = Len(cleaned_feedback)
        /\ \E r \in 1..Len(runs) :
              /\ Len(calls) >= runs[r] + 2 * Len(cleaned_feedback)
              /\ \A k \in 1..Len(cleaned_feedback) :
                    /\ calls[runs[r] + 2 * k - 1] =
                           [caller |-> "sentiment",
                            prompt |-> SentimentPrompt(cleaned_feedback[k]),
                            result |-> sentiments[k]]
                    /\ calls[runs[r] + 2 * k].caller = "topics"
                    /\ calls[runs[r] + 2 * k].prompt =
                           TopicsPrompt(cleaned_feedback[k])
                    /\ topics_per_feedback[k] =
                           TopicsCell(ParseTopics(calls[runs[r] + 2 * k].result))

\* the summary is that of the call a run made for the current
\* cleaned_feedback
SummaryFromCurrent ==
    (ai_summary # <<>> \/ analysis_completed) =>
        \E r \in 1..Len(runs) :
            /\ Len(calls) > runs[r] + 2 * Len(cleaned_feedback)
            /\ calls[runs[r] + 2 * Len(cleaned_feedback) + 1] =
                   [caller |-> "summary", prompt |-> SummaryPrompt(cleaned_feedback),
                    result |-> ai_summary]

\* every chat turn belongs to the current data: the transcript is empty
\* before the analysis is completed, and an assistant turn is the result of
\* a call made for the question before it, the current cleaned_feedback and
\* the current summary
ChatFromCurrent ==
    /\ chat_history # <<>> => analysis_completed
    /\ \A k \in 1..Len(chat_history) :
          chat_history[k].role = "assistant" =>
              /\ k > 1
              /\ chat_history[k - 1].role = "user"
              /\ \E n \in 1..Len(calls) :
                    calls[n] =
                        [caller |-> "chat",
                         prompt |-> ChatPrompt(cleaned_feedback, ai_summary,
                                               chat_history[k - 1].content),
                         result |-> chat_history[k].content]

\* the name and the cleaned feedback of each file of the session, the
\* checkbox ticked or not
IngestedSessionFiles ==
    {[name |-> f.name,
      value |-> ingest_and_clean_data(f.content, FileTypeOf(f.name), b).value] :
        f \in SessionFiles, b \in BOOLEAN}

\* the cleaned feedback is the ingestion of a file of the name last taken up
FeedbackFromLastFile ==
    cleaned_feedback # <<>> =>
        [name |-> last_uploaded_file_name, value |-> cleaned_feedback]
            \in IngestedSessionFiles

C13_NoStaleResults ==
    /\ FeedbackFromLastFile
    /\ ResultsFromCurrent
    /\ SummaryFromCurrent
    /\ ChatFromCurrent

\* a run of the upload branch: the uploader's file is taken up
C13_TakeUpClears ==
    Len(ingests') = Len(ingests) + 1 =>
        /\ ResultsEmpty'
        /\ cleaned_feedback' \in
               {<<>>, TryIngest(uploaded_file.content,
                                FileTypeOf(uploaded_file.name),
                                lemmatize_option).value}

\* C13: a new file replaces the session data wholesale: the run that takes
\* the file up leaves sentiments, topics, summary and chat transcript empty
\* and the analysis not completed, whether or not the ingestion succeeds,
\* and in every reachable state the results, the summary and the chat turns
\* are those of calls made for the current cleaned feedback.
C13_ReplacedWholesale == []C13_NoStaleResults /\ [][C13_TakeUpClears]_vars

\* a new file is in the uploader of a session that holds the analysis and a
\* chat interaction of the previous file; the run that takes it up is due
C13_Witness ==
    /\ pc = "run"
    /\ NewFileSeen
    /\ ingests = <<>>
    /\ uploaded_file = DataJson
    /\ last_uploaded_file_name = ReviewsTxt.name
    /\ analysis_completed
    /\ Len(sentiments) = 2
    /\ Len(chat_history) = 2

-----------------------------------------------------------------------------
(* Claims about the chat transcript, checked under SpecChat *)

\* C14, as the specification states it, of the states in which the script
\* is at rest: each chat interaction has appended one user turn and then
\* one assistant turn, so between interactions the transcript has even
\* length and alternates user, assistant, starting with user.
C14_Original ==
    pc = "idle" =>
        /\ Len(chat_history) % 2 = 0
        /\ \A k \in 1..Len(chat_history) :
              chat_history[k].role = IF k % 2 = 1 THEN "user" ELSE "assistant"

\* a step leaves the transcript alone, or appends one turn to it, or
\* empties it in a run of the upload branch or a reset
C14_TurnsOnlyAppended ==
    \/ chat_history' = chat_history
    \/ /\ Len(chat_history') = Len(chat_history) + 1
       /\ SubSeq(chat_history', 1, Len(chat_history)) = chat_history
    \/ /\ chat_history' = <<>>
       /\ \/ Len(ingests') = Len(ingests) + 1
          \/ analysis_completed /\ last_uploaded_file_name' = None /\ ingests' = <<>>

\* turns are never changed or removed except by a new file upload or a
\* reset
C14_NeverChanged == [][C14_TurnsOnlyAppended]_vars

\* the call of the first chat interaction has returned and the script is at
\* rest, stopped before the answer was appended: the transcript holds the
\* question alone
C14_Witness ==
    /\ pc = "idle"
    /\ Len(chat_history) = 1
    /\ chat_history[1].role = "user"
    /\ Len(calls) = 4
    /\ calls[4].caller = "chat"

-----------------------------------------------------------------------------
(* Claims about ingest_and_clean_data, checked under SpecIngest *)

\* the outcome of the last run of the upload branch
LastIngest == ingests[Len(ingests)]

EmptyResultError == "No valid feedback text found after cleaning."

FormatErrors ==
    {"Error reading CSV file", "Invalid JSON file format.",
     "Error reading JSON file", "Unsupported file type"}

\* the texts of the exceptions raised before ingest_and_clean_data is
\* called: by the decoding of the bytes and by the reader of the preview
PreviewErrors ==
    {DecodeError.error, DigitLimitError, "maximum recursion depth exceeded",
     "No columns to parse from file", "Error tokenizing data"}

\* C15: when ingest_and_clean_data returns, the sequence has at least one
\* element and every element is a non-empty string; otherwise it fails with
\* an error; so cleaned_feedback is always empty or a sequence of non-empty
\* strings.
C15_IngestedNonEmpty ==
    /\ \A k \in 1..Len(cleaned_feedback) :
          /\ IsStr(cleaned_feedback[k])
          /\ cleaned_feedback[k] # <<>>
          /\ Strip(cleaned_feedback[k]) = cleaned_feedback[k]
    /\ ingests # <<>> =>
          IF LastIngest = "ok"
          THEN cleaned_feedback # <<>>
          ELSE /\ cleaned_feedback = <<>>
               /\ LastIngest \in
                      FormatErrors \cup PreviewErrors
                      \cup {EmptyResultError, Rejected.error, DigitLimit.error,
                            "stopped"}

\* a file of three lines has been ingested and one record has survived
C15_Witness ==
    /\ ingests = <<"ok">>
    /\ Len(uploaded_file.content.lines) = 3
    /\ Len(cleaned_feedback) = 1

\* the raw records of a file whose format is accepted: the stripped
\* non-empty lines, the feedback fields of the objects of the list (nothing
\* for a missing field or a value that is no text), the cells of the column
RawRecords(f) ==
    IF FileTypeOf(f.name) = <<"c", "s", "v">>
    THEN [k \in 1..Len(f.content.cells) |-> CellToStr(f.content.cells[k])]
    ELSE IF FileTypeOf(f.name) = <<"j", "s", "o", "n">>
    THEN LET objects == SelectSeq(f.content.items, LAMBDA it : it.dict)
         IN  [k \in 1..Len(objects) |->
                 IF objects[k].has /\ objects[k].str THEN objects[k].s ELSE <<>>]
    ELSE LET stripped == [k \in 1..Len(f.content.lines) |-> Strip(f.content.lines[k])]
         IN  SelectSeq(stripped, LAMBDA l : l # <<>>)

\* neither the decoding of the bytes nor the reader of the preview nor
\* the reader of the file's type raises anything for the file
FormatAccepted(f) ==
    /\ f.content.utf8
    /\ f.content.preview = ""
    /\ IF FileTypeOf(f.name) = <<"c", "s", "v">>
       THEN f.content.valid /\ <<"feedback_text">> \in f.content.columns
       ELSE IF FileTypeOf(f.name) = <<"j", "s", "o", "n">>
       THEN f.content.valid /\ f.content.other = "" /\ f.content.list
       ELSE FileTypeOf(f.name) = <<"t", "x", "t">>

\* the upload branch has run on the file to the end of the ingestion
Ingested == ingests # <<>> /\ ingests[Len(ingests)] # "stopped"

\* the positions of the raw records of f that are not empty when
\* normalized, with lemmatization (b) or without
Surviving(f, b) ==
    {k \in 1..Len(RawRecords(f)) : preprocess_text(RawRecords(f)[k], b) # <<>>}

\* the result of ingestion is the sequence of the records of f that survive
\* the normalization with option b, or the error of an empty result
SurvivorsIngested(f, b) ==
    IF Surviving(f, b) = {}
    THEN LastIngest = EmptyResultError /\ cleaned_feedback = <<>>
    ELSE /\ LastIngest = "ok"
         /\ Len(cleaned_feedback) = Cardinality(Surviving(f, b))
         /\ \A k \in Surviving(f, b) :
               cleaned_feedback[Cardinality({m \in Surviving(f, b) : m <= k})]
                   = preprocess_text(RawRecords(f)[k], b)

\* C16, as the specification states it: the result of ingestion is the
\* sequence of the normalized raw records with the empty ones left out, in
\* the original order; a record that normalizes to the empty string is
\* excluded without an error, and ingestion fails only if no record
\* survives.
C16_Original ==
    (Ingested /\ FormatAccepted(uploaded_file)) =>
        \E b \in BOOLEAN : SurvivorsIngested(uploaded_file, b)

\* the same of the files in which preprocess_text raises on no record
C16_SurvivorsOfAccepted ==
    (/\ Ingested
     /\ FormatAccepted(uploaded_file)
     /\ \A k \in 1..Len(RawRecords(uploaded_file)) :
           preprocess_text(RawRecords(uploaded_file)[k], FALSE)
               \notin {ParserRejectedMarkup, DigitLimitExceeded})
    => \E b \in BOOLEAN : SurvivorsIngested(uploaded_file, b)

\* the lines "a" and "<![>": the ingestion has failed on the second line,
\* which the parser rejects, and nothing is stored
C16_Witness ==
    /\ ingests # <<>>
    /\ uploaded_file.content.lines = << <<"a", "\n">>, RejectedText \o <<"\n">> >>
    /\ LastIngest = Rejected.error
    /\ cleaned_feedback = <<>>

\* C17: tabular ingestion of a file whose header has no column named
\* feedback_text fails with the format error of the CSV reader, a
\* ValueError, whatever other columns and rows are present, and yields no
\* records; in the session the exception of the preview's reader, a
\* ValueError too, may come first.
C17_NoColumnFails ==
    (/\ ingests # <<>>
     /\ FileTypeOf(uploaded_file.name) = <<"c", "s", "v">>
     /\ <<"feedback_text">> \notin uploaded_file.content.columns) =>
        /\ \A b \in BOOLEAN :
              ingest_and_clean_data(uploaded_file.content, <<"c", "s", "v">>, b)
                  = Raises("ValueError", "Error reading CSV file")
        /\ \A k \in 1..Len(ingests) :
              ingests[k] \in
                  {"Error reading CSV file", "stopped"}
                  \cup (IF uploaded_file.content.valid /\ uploaded_file.content.utf8
                        THEN {} ELSE PreviewErrors)
        /\ cleaned_feedback = <<>>
        /\ Ingested => last_uploaded_file_name = None

\* a table with the columns Feedback_Text and id and two rows has failed
C17_Witness ==
    /\ ingests # <<>>
    /\ FileTypeOf(uploaded_file.name) = <<"c", "s", "v">>
    /\ uploaded_file.content.valid
    /\ uploaded_file.content.columns = {<<"Feedback_Text">>, <<"id">>}
    /\ Len(uploaded_file.content.cells) = 2
    /\ LastIngest = "Error reading CSV file"

\* C18, as the specification states it: structured ingestion fails with a
\* format error exactly when the input is no valid JSON or its top-level
\* value is no list; a list is never a format error because of its
\* elements.
C18_Original ==
    (/\ Ingested
     /\ FileTypeOf(uploaded_file.name) = <<"j", "s", "o", "n">>
     /\ uploaded_file.content.utf8
     /\ uploaded_file.content.preview = "") =>
        LET c == uploaded_file.content
        IN  LastIngest \in FormatErrors <=> ~(c.valid /\ c.list)

\* a list whose elements the decoder raises on has failed with the format
\* error of a value that is no list
C18_Witness ==
    /\ Ingested
    /\ FileTypeOf(uploaded_file.name) = <<"j", "s", "o", "n">>
    /\ uploaded_file.content.valid /\ uploaded_file.content.list
    /\ uploaded_file.content.other = "RecursionError"
    /\ uploaded_file.content.preview = ""
    /\ LastIngest = "Error reading JSON file"

-----------------------------------------------------------------------------
(* Claims about preprocess_text, checked under SpecNormalize *)

\* the text of the uploaded list's one element, and what preprocess_text
\* has made of it (an empty result is dropped and the ingestion fails)
InputText == uploaded_file.content.items[1].s
NormalizedText == IF cleaned_feedback = <<>> THEN <<>> ELSE cleaned_feedback[1]

Normalized == ingests # <<>> /\ uploaded_file # NoFile

\* C19, as the specification states it: normalize is idempotent; what
\* preprocess_text returns it returns unchanged when applied again.
C19_Original ==
    Normalized => preprocess_text(NormalizedText, FALSE) = NormalizedText

\* "h.ttpp" has been normalized to "httpp", which preprocess_text removes
\* as a URL-shaped substring
C19_Witness ==
    /\ ingests = <<"ok">>
    /\ InputText = <<"h", ".", "t", "t", "p", "p">>
    /\ cleaned_feedback = << <<"h", "t", "t", "p", "p">> >>
    /\ preprocess_text(cleaned_feedback[1], FALSE) = <<>>

\* t occurs in s
Contains(s, t) ==
    \E k \in 0..(Len(s) - Len(t)) : SubSeq(s, k + 1, k + Len(t)) = t

\* the texts between the tags of the text x, for each way of reading x as
\* a text with a tag pair
InnerTexts(x) ==
    {SubSeq(x, Len(pre) + Len(tags.open) + 1,
               Len(x) - Len(post) - Len(tags.close)) :
        <<pre, tags, post>> \in
            {c \in MarkedPre \X TagPairs \X MarkedPost :
                /\ Len(x) > Len(c[1]) + Len(c[2].open) + Len(c[2].close) + Len(c[3])
                /\ StartsWith(x, c[1] \o c[2].open)
                /\ SubSeq(x, Len(x) - Len(c[3]) - Len(c[2].close) + 1, Len(x))
                       = c[2].close \o c[3]}}

\* C20, as the specification states it: for every input that contains an
\* HTML tag pair the normalized output holds none of the markup and still
\* holds the inner text of the pair (lowercased, its punctuation removed,
\* trimmed).
C20_Original ==
    Normalized =>
        \A inner \in InnerTexts(InputText) :
            /\ "<" \notin Range(NormalizedText)
            /\ ">" \notin Range(NormalizedText)
            /\ Contains(NormalizedText, Strip(remove_punctuation(Lower(inner))))

\* <a href=http://x>A</a> has been normalized to "a href": the URL-shaped
\* substring runs to the end of the text, what is left of the start tag is
\* kept as text and the inner text is gone
C20_Witness ==
    /\ ingests = <<"ok">>
    /\ InputText = <<"<", "a", " ", "h", "r", "e", "f", "=", "h", "t", "t", "p",
                     ":", "/", "/", "x", ">", "A", "<", "/", "a", ">">>
    /\ InnerTexts(InputText) = { <<"A">> }
    /\ cleaned_feedback = << <<"a", " ", "h", "r", "e", "f">> >>


-----------------------------------------------------------------------------
(* Claims about extract_topics, checked under SpecTopics *)

\* a call of extract_topics on its own has returned
TopicsReturned == pc = "test" /\ call.caller = "extract_topics" /\ call.pc = "done"

\* what the executor returned to extract_topics, and what extract_topics returned
RawTopics == call.result.raw_topics
Topics == call.result.topics

\* the executor gave up: rate limits to the maximum, or another error
ExecutorFailed == LastOutcome.kind \in {"rate", "other"}

\* C21: when the executor's response is the literal "no topics", or the
\* executor ended in rate-limit exhaustion or in another error and returned
\* that failure's sentinel, extract_topics returns the empty list, so that
\* no part of the sentinel is a topic.
C21_SentinelsGiveNoTopics ==
    TopicsReturned =>
        /\ LastOutcome.kind = "rate" =>
              RawTopics = ExhaustedSentinel(DefaultMaxRetries, LastOutcome.detail)
        /\ LastOutcome.kind = "other" =>
              RawTopics = OtherErrorSentinel(LastOutcome.detail)
        /\ (RawTopics = <<"no topics">> \/ ExecutorFailed) => Topics = <<>>

\* C21 witness: seven rate limits in a row, the exhaustion sentinel returned
\* to extract_topics, the empty list returned by it
C21_Witness ==
    /\ TopicsReturned
    /\ Requests(call) = DefaultMaxRetries
    /\ LastOutcome.kind = "rate"
    /\ StartsWith(RawTopics, <<"Failed to get response after", " ", "7">>)
    /\ Topics = <<>>

\* the positions of the commas of s
CommaPositions(s) == {k \in 1..Len(s) : s[k] = ","}

\* where the comma-separated pieces of s start
PieceStarts(s) == {1} \cup {k + 1 : k \in CommaPositions(s)}

\* the piece of s that starts at b: it runs up to the next comma or the end
PieceAt(s, b) ==
    LET after == {k \in CommaPositions(s) : k >= b}
        stop == IF after = {} THEN Len(s) + 1
                ELSE CHOOSE k \in after : \A m \in after : k <= m
    IN  SubSeq(s, b, stop - 1)

\* t is piece without the white space around it
IsTrimmed(t, piece) ==
    \E a \in 0..Len(piece), z \in 0..Len(piece) :
        /\ a + Len(t) + z = Len(piece)
        /\ \A k \in 1..a : IsSpace(piece[k])
        /\ \A k \in (Len(piece) - z + 1)..Len(piece) : IsSpace(piece[k])
        /\ t = SubSeq(piece, a + 1, Len(piece) - z)
        /\ t # <<>> => ~IsSpace(t[1]) /\ ~IsSpace(t[Len(t)])

\* the starts of the pieces that are more than white space
KeptStarts(s) == {b \in PieceStarts(s) : \E k \in 1..Len(PieceAt(s, b)) :
                                             ~IsSpace(PieceAt(s, b)[k])}

\* the j-th of them
KeptStart(s, j) ==
    CHOOSE b \in KeptStarts(s) : Cardinality({c \in KeptStarts(s) : c < b}) = j - 1

\* the response is "no topics" or begins as a failure sentinel does
MatchesSentinel(raw) ==
    \/ raw = <<"no topics">>
    \/ StartsWith(raw, <<"An unexpected API error occurred:">>)
    \/ StartsWith(raw, <<"Failed to get response after">>)

\* C22: for a response that is not "no topics" and matches no failure
\* sentinel, extract_topics returns the comma-separated pieces of the
\* response that are more than white space, each trimmed, in their order;
\* "delivery, speed,  , app issues" gives delivery, speed, app issues.
C22_TrimmedPiecesInOrder ==
    (TopicsReturned /\ ~MatchesSentinel(RawTopics)) =>
        /\ Len(Topics) = Cardinality(KeptStarts(RawTopics))
        /\ \A j \in 1..Len(Topics) :
              IsTrimmed(Topics[j], PieceAt(RawTopics, KeptStart(RawTopics, j)))
        /\ RawTopics = <<"delivery", ",", " ", "speed", ",", " ", " ", ",", " ",
                         "app issues">>
              => Topics = << <<"delivery">>, <<"speed">>, <<"app issues">> >>

\* C22 witness: "delivery, speed,  , app issues" has given three topics
C22_Witness ==
    /\ TopicsReturned
    /\ RawTopics = <<"delivery", ",", " ", "speed", ",", " ", " ", ",", " ",
                     "app issues">>
    /\ Len(Topics) = 3
    /\ Topics[3] = <<"app issues">>

\* C23, as the specification states it: no topic occurs twice in the list
\* extract_topics returns for one record.
C23_Original ==
    TopicsReturned =>
        \A j \in 1..Len(Topics), k \in 1..Len(Topics) :
            j # k => Topics[j] # Topics[k]

\* the response "speed, speed" has given the list speed, speed
C23_Witness ==
    /\ TopicsReturned
    /\ RawTopics = <<"speed", ",", " ", "speed">>
    /\ Topics = << <<"speed">>, <<"speed">> >>


-----------------------------------------------------------------------------
(* Claims about the analysis run, checked under SpecBatch *)

\* the sentiment labels the prompt asks for
SentimentVocabulary == { <<"Positive">>, <<"Negative">>, <<"Neutral">> }

\* C24: what the executor returns to get_sentiment is stored unchanged as
\* the record's sentiment, while the run collects the results and after it
\* has stored them, whether it is one of Positive, Negative, Neutral, any
\* other answer, or a failure sentinel.
C24_SentimentVerbatim ==
    /\ \A k \in 1..Len(temp_sentiments) :
          /\ SentimentCallOf(k).caller = "sentiment"
          /\ temp_sentiments[k] = SentimentCallOf(k).result
    /\ sentiments # <<>> =>
          \E r \in 1..Len(runs) :
              \A k \in 1..Len(sentiments) :
                  /\ calls[runs[r] + 2 * k - 1].caller = "sentiment"
                  /\ sentiments[k] = calls[runs[r] + 2 * k - 1].result

\* C24 witness: a completed analysis whose first sentiment is the sentinel of
\* a rate-limit exhaustion and whose second is an answer outside the labels
C24_Witness ==
    /\ analysis_completed
    /\ Len(sentiments) >= 2
    /\ sentiments[1] = ExhaustedSentinel(DefaultMaxRetries, <<"429 quota exceeded">>)
    /\ sentiments[2] \notin SentimentVocabulary
    /\ ~IsFailureText(sentiments[2])

\* the call the run makes as its n-th: for record k the (2k-1)-th is the
\* sentiment call and the 2k-th the topics call, the last is the summary
ExpectedCaller(n) ==
    IF n = 2 * Len(cleaned_feedback) + 1 THEN "summary"
    ELSE IF n % 2 = 1 THEN "sentiment" ELSE "topics"

ExpectedPrompt(n) ==
    IF n = 2 * Len(cleaned_feedback) + 1 THEN SummaryPrompt(cleaned_feedback)
    ELSE IF n % 2 = 1 THEN SentimentPrompt(cleaned_feedback[(n + 1) \div 2])
    ELSE TopicsPrompt(cleaned_feedback[n \div 2])

\* C25: the run makes its calls one at a time and in order: while it runs,
\* exactly one call is in progress, it is the call that follows the calls
\* that have returned (sentiment of record 1, topics of record 1, sentiment
\* of record 2, ..., the summary after the topics of the last record), the
\* progress reported so far is k/N for each record k whose two calls have
\* returned; a completed run has made 2N+1 calls, the last the summary.
C25_OneAtATime ==
    /\ \A n \in 1..(Len(calls) - RunBase) :
          /\ n <= 2 * Len(cleaned_feedback) + 1
          /\ calls[RunBase + n].caller = ExpectedCaller(n)
          /\ calls[RunBase + n].prompt = ExpectedPrompt(n)
    /\ pc = "analysis" =>
          /\ call.pc = "loop"
          /\ Len(calls) - RunBase <= 2 * Len(cleaned_feedback)
          /\ call.caller = ExpectedCaller(Len(calls) - RunBase + 1)
          /\ call.prompt = ExpectedPrompt(Len(calls) - RunBase + 1)
          /\ Len(progress) = (Len(calls) - RunBase) \div 2
          /\ \A k \in 1..Len(progress) : progress[k] = <<k, Len(cleaned_feedback)>>
          /\ Len(temp_sentiments) = (Len(calls) - RunBase + 1) \div 2
          /\ Len(temp_topics_for_df) = (Len(calls) - RunBase) \div 2
    /\ pc # "analysis" => call.pc = "idle"
    /\ analysis_completed => Len(calls) - RunBase = 2 * Len(cleaned_feedback) + 1

\* C25 witness: three records, the six calls for them have returned, 3/3 has
\* been reported and the summary call is in progress after a rate limit
C25_Witness ==
    /\ pc = "analysis"
    /\ Len(cleaned_feedback) = 3
    /\ Len(calls) = 6
    /\ progress = << <<1, 3>>, <<2, 3>>, <<3, 3>> >>
    /\ call.caller = "summary"
    /\ call.retries = 1

\* the two comma-separated pieces of the empty-or-blocked sentinel
BlockedPieces ==
    << <<"AI response was empty or blocked for this input">>,
       <<"possibly due to safety settings.">> >>

\* C27: when the executor returns the empty-or-blocked sentinel to
\* extract_topics, the result is the two pieces of the sentinel's sentence,
\* and the record's topics entry holds them, joined by ", "; it is not empty.
C27_BlockedSentinelSplit ==
    /\ \A k \in 1..Len(temp_topics_for_df) :
          TopicsCallOf(k).result = BlockedSentinel =>
              /\ ParseTopics(TopicsCallOf(k).result) = BlockedPieces
              /\ temp_topics_for_df[k] = Join(<<",", " ">>, BlockedPieces)
    /\ topics_per_feedback # <<>> =>
          \E r \in 1..Len(runs) :
              \A k \in 1..Len(topics_per_feedback) :
                  calls[runs[r] + 2 * k].result = BlockedSentinel =>
                      /\ topics_per_feedback[k] = Join(<<",", " ">>, BlockedPieces)
                      /\ topics_per_feedback[k] # <<>>

\* C27 witness: a completed analysis in which the topics call of the first
\* record got an empty response and its sentiment call an answer
C27_Witness ==
    /\ analysis_completed
    /\ calls[2].caller = "topics"
    /\ calls[2].result = BlockedSentinel
    /\ sentiments[1] = <<"Positive">>
    /\ topics_per_feedback[1] =
          <<"AI response was empty or blocked for this input", ",", " ",
            "possibly due to safety settings.">>


-----------------------------------------------------------------------------
(* The fall-through return of make_gemini_call_with_retry, checked under   *)
(* SpecCall                                                                *)

\* a call with a maximum of at least 1 ends through a return inside the
\* loop, after a request; a call with a maximum of 0 or less ends with the
\* fall-through return and has issued no request
C26_ReturnsInsideLoop ==
    Returned =>
        /\ call.max_retries >= 1 =>
              /\ Requests(call) >= 1
              /\ LastOutcome.kind \in {"text", "empty", "rate", "other"}
              /\ LastOutcome.kind # "text" => call.result # UnknownReasonSentinel
        /\ call.max_retries <= 0 =>
              /\ Requests(call) = 0
              /\ call.result = UnknownReasonSentinel

\* the fall-through return is taken only with a maximum of 0 or less and
\* no request issued
C26_FallThroughOnlyWithoutAttempts ==
    LoopExit => (call.max_retries <= 0 /\ Requests(call) = 0)

\* C26: with a maximum of 1 or more, the default 7 included, the return of
\* line 125 is never taken: every call ends through one of the four returns
\* inside the loop.  With a maximum of 0 or less the call ends through line
\* 125 and issues no request.
C26_FallThroughUnreachable ==
    []C26_ReturnsInsideLoop /\ [][C26_FallThroughOnlyWithoutAttempts]_vars

\* C26 witness: a call with max_retries = -1 has returned the fall-through
\* text without a request
C26_Witness ==
    /\ Returned
    /\ call.max_retries = -1
    /\ Requests(call) = 0
    /\ call.result = UnknownReasonSentinel


-----------------------------------------------------------------------------
(* Claims about the session after a file has been taken up, checked under  *)
(* Spec                                                                    *)

\* the uploader holds a file of the name last taken up
SameNameFile ==
    uploaded_file # NoFile /\ uploaded_file.name = last_uploaded_file_name

\* with such a file in the uploader no step is a run of the upload branch,
\* and a run of the script from the top leaves the session data as it is
C28_NoTakeUp ==
    SameNameFile =>
        /\ ingests' \in {ingests, <<>>}
        /\ pc = "run" =>
              UNCHANGED <<cleaned_feedback, file_type, sentiments,
                          topics_per_feedback, ai_summary, chat_history,
                          last_uploaded_file_name, analysis_completed>>

\* C28: a new upload is recognised by its name alone: while the uploader's
\* file has the name last taken up, no ingestion takes place and the run of
\* the script leaves cleaned_feedback, sentiments, topics, summary, chat
\* transcript and the completed flag unchanged, whatever the file holds.
C28_RecognisedByNameOnly == [][C28_NoTakeUp]_vars

\* C28 witness: the uploader holds the revised reviews.txt ("ok"), the
\* script has run and is at rest, and the session still holds the two
\* records and the completed analysis of the reviews.txt ingested before
C28_Witness ==
    /\ pc = "idle"
    /\ uploaded_file = RevisedReviewsTxt
    /\ last_uploaded_file_name = RevisedReviewsTxt.name
    /\ ingests = <<>>
    /\ cleaned_feedback = << <<"g", "o", "o", "d">>, <<"l", "a", "t", "e">> >>
    /\ analysis_completed
    /\ Len(sentiments) = 2

AnalysisCallers == {"sentiment", "topics", "summary"}

\* once the analysis is completed no call of the analysis is in progress,
\* and the calls made after those of the run that completed it are chat
\* calls
C29_OneRun ==
    analysis_completed =>
        /\ call.caller \notin AnalysisCallers
        /\ Len(calls) >= RunBase + 2 * Len(cleaned_feedback) + 1
        /\ \A n \in (RunBase + 2 * Len(cleaned_feedback) + 2)..Len(calls) :
              calls[n].caller = "chat"

\* a step from a state with a completed analysis: the results stay and no
\* analysis call is made or recorded, or the step is the reset or the
\* take-up of a file of another name, which empty them
C29_ResultsStay ==
    analysis_completed =>
        \/ /\ UNCHANGED <<sentiments, topics_per_feedback, ai_summary,
                          analysis_completed, cleaned_feedback>>
           /\ call'.caller \notin AnalysisCallers
           /\ \/ calls' = calls
              \/ /\ Len(calls') = Len(calls) + 1
                 /\ SubSeq(calls', 1, Len(calls)) = calls
                 /\ calls'[Len(calls')].caller = "chat"
        \/ /\ ResultsEmpty'
           /\ calls' = <<>>
           /\ pc = "idle"
           /\ ingests' = <<>>
           /\ last_uploaded_file_name' = None
        \/ /\ ResultsEmpty'
           /\ calls' = <<>>
           /\ uploaded_file # NoFile
           /\ uploaded_file.name # last_uploaded_file_name
           /\ Len(ingests') = Len(ingests) + 1

\* C29: the analysis runs at most once per ingested file: once it is marked
\* completed no sentiment, topics or summary call is made and sentiments,
\* topics_per_feedback and ai_summary stay as they are, chat interactions
\* included, until a file of another name is taken up or the application
\* is reset.
C29_AnalysisOncePerFile == []C29_OneRun /\ [][C29_ResultsStay]_vars

\* C29 witness: after a completed analysis of two records a chat interaction
\* has been answered: seven calls, the last the chat call, the script at rest
C29_Witness ==
    /\ pc = "idle"
    /\ analysis_completed
    /\ Len(cleaned_feedback) = 2
    /\ Len(chat_history) = 2
    /\ Len(calls) = 6
    /\ calls[5].caller = "summary"
    /\ calls[6].caller = "chat"


-----------------------------------------------------------------------------
(* The choice of the model, checked under SpecStartup *)

\* the model is among the listed models that support generateContent
Suitable(model) ==
    \E k \in 1..Len(startup.listing.models) :
        /\ startup.listing.models[k].name = <<"models/">> \o model
        /\ "generateContent" \in startup.listing.models[k].supported_generation_methods

\* the listing has succeeded and neither a preferred model nor the fallback
\* model is suitable
NoneSuitable ==
    /\ ~startup.listing.fails
    /\ \A k \in 1..Len(PreferredModels) : ~Suitable(PreferredModels[k])
    /\ ~Suitable(startup.fallback_model)

\* C30, as stated: when no suitable model is found the call of
\* get_supported_model raises an error, and a model name is returned only
\* when that model is among the listed models that support generateContent.
C30_Original ==
    startup.pc # "import" =>
        /\ NoneSuitable => startup.pc = "raised"
        /\ (startup.pc = "selected" /\ ~startup.listing.fails) =>
              Suitable(startup.model_to_use)

\* only an embedding model and gemini-pro are listed, the fallback is the
\* default: gemini-1.0-pro has been returned and assigned to model_to_use
C30_Witness ==
    /\ startup.pc = "selected"
    /\ NoneSuitable
    /\ Len(startup.listing.models) = 2
    /\ startup.fallback_model = DefaultFallbackModel
    /\ startup.model_to_use = <<"gemini-1.0-pro">>

=============================================================================
